---- MODULE Spec2Model ----
(***************************************************************************)
(* A model of the library synchronisation engine of LMS,                   *)
(* src/src/database-updater/DatabaseUpdater.cpp: the scheduler             *)
(* (start, stop, processNextJob, scheduleScan), the scan coordinator       *)
(* (process), the consistency sweeper (checkFile, checkAudioFiles,         *)
(* checkVideoFiles), the directory walk (processDirectory) and the         *)
(* per-file change appliers (processAudioFile, processVideoFile) with the  *)
(* entity resolvers (getArtist, getRelease, getGenres).                    *)
(*                                                                         *)
(* The specifications share the state:                                     *)
(*   Spec       the engine as a concurrent system: a controlling thread    *)
(*              calling start() and stop(), the deadline timer, the single *)
(*              io-service thread running process(), the clock and an      *)
(*              external writer of the settings;                           *)
(*   DateSpec   start() on every calendar day, time of day, update period  *)
(*              and start time of a bounded window (the date arithmetic);  *)
(*   SweepSpec  the consistency sweeper over path strings;                 *)
(*   AudioSpec  processAudioFile over every attribute bag of a bounded     *)
(*              set, VideoSpec processVideoFile likewise;                  *)
(*   EntitySpec processAudioFile over the artist, album and genre tags;    *)
(*   WalkSpec   passes over a library whose files are rewritten and        *)
(*              deleted between and during the passes;                     *)
(*   RootSpec   passes over root directories that are missing, are not     *)
(*              directories, or are added during a pass;                   *)
(*   FailSpec   passes in which the database or the directory iterator     *)
(*              throws.                                                    *)
(***************************************************************************)
EXTENDS Integers, Sequences, FiniteSets, TLC

VARIABLES
  now,               \* the wall clock: [date, tod]
  settings,          \* the MediaDirectorySettings row
  ctl,               \* where the controlling thread is in the engine's life
  running,           \* Updater::_running
  timer,             \* Updater::_scheduleTimer: [armed, at]
  queue,             \* completion handlers queued in _ioService: error codes
  pc,                \* where the io-service thread is inside process()
  stats,             \* the Stats of the pass in flight (or of the call)
  rootDirectories,   \* process(): the snapshot of the root directories
  itPath,            \* processDirectory(): the entries still to be visited
  mediaDirectories,  \* the MediaDirectory table: a sequence of [path, type]
  audioExtensions,   \* Updater::_audioExtensions
  videoExtensions,   \* Updater::_videoExtensions
  fs,                \* the file system: path -> [kind, mtime, cover]
  tracks,            \* the Track table: path -> row, or NoRow
  videos,            \* the Video table: path -> row, or NoRow
  artists,           \* the Artist table: a sequence of [name, mbid, none]
  releases,          \* the Release table: a sequence of [name, mbid, none]
  genres,            \* the Genre table: a sequence of [name, none]
  lastJob,           \* history: what the last processNextJob() read and did
  lastFile,          \* history: what the last per-file call read and did
  lastSweep,         \* history: what the last sweep read and did
  pass,              \* history: what the pass in flight has seen so far
  transactionStack,  \* TransactionChecker: thread -> its stack of entries
  lastCheck,         \* history: the last call of the transaction checker
  versionInfo,       \* the version of the VersionInfo row
  migration,         \* where doDbMigration() is: [pc, version, from, steps]
  mLookupTable,      \* RequestCacher::mLookupTable: key -> values
  added,             \* history: the keys added non-empty since the last clear
  lastHas            \* history: what the last hasCache() read and returned

updaterVars ==
  <<now, settings, ctl, running, timer, queue, pc, stats, rootDirectories,
    itPath, mediaDirectories, audioExtensions, videoExtensions, fs,
    tracks, videos, artists, releases, genres,
    lastJob, lastFile, lastSweep, pass>>
checkerVars == <<transactionStack, lastCheck>>
migrationVars == <<versionInfo, migration>>
cacherVars == <<mLookupTable, added, lastHas>>
libVars == <<checkerVars, migrationVars, cacherVars>>

vars == <<updaterVars, libVars>>

configVars == <<mediaDirectories, audioExtensions, videoExtensions>>
catalogVars == <<tracks, videos, artists, releases, genres>>
historyVars == <<lastJob, lastFile, lastSweep, pass>>
walkVars == <<pc, stats, rootDirectories, itPath>>

(***************************************************************************)
(* Bounds of the model.                                                    *)
(***************************************************************************)
\* DateSpec: the calendar days 0..MaxDate (day 0 is Monday 1 January of a
\* leap year) and the times of day 0..MaxTod.
MaxDate == 95
MaxTod == 2
\* Spec: the clock runs over ClockDays days from ClockFirstDay, each of
\* the times of day 0..ClockTod.
ClockDays == 1
ClockTod == 1

\* the last write times of a file are 0..MaxMtime; a pass of AudioSpec counts
\* at most MaxChanges changes
MaxMtime == 1
MaxChanges == 1

\* EntitySpec processes a file while the artists, releases and genres
\* together have fewer than MaxRows rows
MaxRows == 5

\* RestartSpec: start() is not called again while MaxQueue handlers are queued
MaxQueue == 2

\* CheckerSpec: a thread has at most MaxDepth transactions open
MaxDepth == 2

\* MigrationSpec: the stored versions are MinStored..MaxStored
MinStored == 30
MaxStored == 49

(***************************************************************************)
(* The calendar: boost::gregorian::date as a day number.                   *)
(***************************************************************************)
MonthLengths == <<31, 29, 31, 30, 31, 30, 31, 31, 30, 31, 30, 31>>

RECURSIVE DayInMonth(_, _)
DayInMonth(d, m) ==
  IF d < MonthLengths[m] THEN d + 1
  ELSE DayInMonth(d - MonthLengths[m], (m % 12) + 1)

\* date::day(): the day of the month, 1..31
day(d) == DayInMonth(d, 1)

\* date::day_of_week(): 0 is Sunday, 1 is Monday
day_of_week(d) == (d + 1) % 7

\* Sunday 31 March: the next day is a Monday and the first of a month
ClockFirstDay == 31 + 29 + 30

\* a getNextDay without the ++it: the day itself
getNextDay_same(current) == current
getNextDay(current) == current + 1

RECURSIVE WhileNotMonday(_)
WhileNotMonday(it) ==
  IF day_of_week(it) # 1 THEN WhileNotMonday(it + 1) ELSE it

\* a getNextMonday without the first ++it: a Monday is its own next Monday
getNextMonday_today(current) == WhileNotMonday(current)
getNextMonday(current) == WhileNotMonday(current + 1)

RECURSIVE WhileNotFirst(_)
WhileNotFirst(it) ==
  IF day(it) # 1 THEN WhileNotFirst(it + 1) ELSE it

\* a getNextFirstOfMonth without the first ++it: a 1st is its own next 1st
getNextFirstOfMonth_today(current) == WhileNotFirst(current)
getNextFirstOfMonth(current) == WhileNotFirst(current + 1)

(***************************************************************************)
(* The settings and the time.                                              *)
(***************************************************************************)
\* MediaDirectorySettings::UpdatePeriod; "Unknown" stands for a stored
\* value that is none of the four enumerators.
UpdatePeriods == {"Never", "Daily", "Weekly", "Monthly", "Unknown"}

Time(d, t) == [date |-> d, tod |-> t]

TimeLE(a, b) == a.date < b.date \/ (a.date = b.date /\ a.tod <= b.tod)

\* a default-constructed boost::gregorian::date is not_a_date_time
NotADate == <<>>
is_special(date) == date = NotADate

\* a ptime that no pass has set yet
NotATime == Time(0 - 1, 0)

(***************************************************************************)
(* The scheduler.                                                          *)
(***************************************************************************)
\* processNextJob(), the switch on the update period
\* a switch whose case Never has no break
nextScanDate_fallthrough(period, n, startTime) ==
  CASE period \in {"Never", "Daily"} ->
         IF n.tod < startTime THEN <<n.date>> ELSE <<getNextDay(n.date)>>
    [] period = "Weekly" ->
         IF n.tod < startTime /\ day_of_week(n.date) = 1
         THEN <<n.date>> ELSE <<getNextMonday(n.date)>>
    [] period = "Monthly" ->
         IF n.tod < startTime /\ day(n.date) = 1
         THEN <<n.date>> ELSE <<getNextFirstOfMonth(n.date)>>
    [] OTHER -> NotADate

\* a switch whose case Daily compares with <=
nextScanDate_dailyLE(period, n, startTime) ==
  CASE period = "Never" -> NotADate
    [] period = "Daily" ->
         IF n.tod <= startTime THEN <<n.date>> ELSE <<getNextDay(n.date)>>
    [] period = "Weekly" ->
         IF n.tod < startTime /\ day_of_week(n.date) = 1
         THEN <<n.date>> ELSE <<getNextMonday(n.date)>>
    [] period = "Monthly" ->
         IF n.tod < startTime /\ day(n.date) = 1
         THEN <<n.date>> ELSE <<getNextFirstOfMonth(n.date)>>
    [] OTHER -> NotADate

nextScanDate(period, n, startTime) ==
  CASE period = "Never" -> NotADate
    [] period = "Daily" ->
         IF n.tod < startTime THEN <<n.date>> ELSE <<getNextDay(n.date)>>
    [] period = "Weekly" ->
         IF n.tod < startTime /\ day_of_week(n.date) = 1
         THEN <<n.date>> ELSE <<getNextMonday(n.date)>>
    [] period = "Monthly" ->
         IF n.tod < startTime /\ day(n.date) = 1
         THEN <<n.date>> ELSE <<getNextFirstOfMonth(n.date)>>
    [] OTHER -> NotADate

\* What processNextJob() asks of the timer: nothing, scheduleScan(duration)
\* or scheduleScan(ptime).
NoSchedule == [kind |-> "none", at |-> NotATime]

\* a processNextJob() that does not read the manual scan request
nextJob_ignoreManual(s, n) ==
  LET d == nextScanDate(s.updatePeriod, n, s.updateStartTime)
  IN  IF is_special(d) THEN NoSchedule
      ELSE [kind |-> "ptime", at |-> Time(d[1], s.updateStartTime)]

nextJob(s, n) ==
  IF s.manualScanRequested
  THEN [kind |-> "duration", at |-> n]
  ELSE LET d == nextScanDate(s.updatePeriod, n, s.updateStartTime)
       IN  IF is_special(d) THEN NoSchedule
           ELSE [kind |-> "ptime", at |-> Time(d[1], s.updateStartTime)]

\* scheduleScan(duration) and scheduleScan(ptime): expires_from_now() and
\* expires_at() cancel a wait that is still pending, whose handler is then
\* queued with operation_aborted, and async_wait() starts the new wait.
scheduleScan(at) ==
  /\ timer' = [armed |-> TRUE, at |-> at]
  /\ queue' = IF timer.armed THEN Append(queue, "aborted") ELSE queue

NoJob == [kind |-> "notyet", at |-> NotATime, manual |-> FALSE,
          period |-> "Never", startTime |-> 0, now |-> NotATime,
          inPass |-> FALSE]

processNextJob ==
  LET job == nextJob(settings, now)
  IN  /\ IF job.kind = "none"
         THEN UNCHANGED <<timer, queue>>
         ELSE scheduleScan(job.at)
      /\ lastJob' = [kind |-> job.kind, at |-> job.at,
                     manual |-> settings.manualScanRequested,
                     period |-> settings.updatePeriod,
                     startTime |-> settings.updateStartTime,
                     now |-> now, inPass |-> pc # "idle"]

(***************************************************************************)
(* Paths: a boost::filesystem::path is the sequence of its characters.     *)
(***************************************************************************)
DirM == <<"/", "m">>
DirV == <<"/", "v">>
DirB == <<"/", "b">>
ExtX == <<".", "x">>
ExtY == <<".", "y">>
FileMA == DirM \o <<"/", "a">> \o ExtX
FileBMA == DirB \o DirM \o <<"/", "a">> \o ExtX
FileMB == DirM \o <<"/", "b">> \o ExtY
FileVC == DirV \o <<"/", "c">> \o ExtY
FileVN == DirV \o <<"/", "n">>

Dirs == {DirM, DirV, DirB}
Files == {FileMA, FileBMA, FileMB, FileVC, FileVN}

LastIndexOf(p, c) ==
  LET S == {i \in 1..Len(p) : p[i] = c}
  IN  IF S = {} THEN 0 ELSE CHOOSE i \in S : \A j \in S : j <= i

\* path::filename(), path::parent_path(), path::extension()
filename(p) == SubSeq(p, LastIndexOf(p, "/") + 1, Len(p))

parent_path(p) == SubSeq(p, 1, LastIndexOf(p, "/") - 1)

extension(p) ==
  LET f == filename(p)
      k == LastIndexOf(f, ".")
  IN  IF k = 0 \/ f = <<".">> \/ f = <<".", ".">> THEN <<>>
      ELSE SubSeq(f, k, Len(f))

\* the string a starts with the string b
startsWith(a, b) == Len(b) <= Len(a) /\ SubSeq(a, 1, Len(b)) = b

\* a.string().find(b.string()) != std::string::npos
find(a, b) ==
  \E i \in 0..(Len(a) - Len(b)) : SubSeq(a, i + 1, i + Len(b)) = b

isFileSupported(file, extensions) == extension(file) \in extensions

\* setAudioExtensions(), setVideoExtensions(): "." + extension
DotExtension(e) == <<".">> \o e

\* exists(p), is_regular(p), is_directory(p)
exists(p) == fs[p].kind # "missing"
is_regular(p) == fs[p].kind = "regular"
is_directory(p) == fs[p].kind = "directory"

\* what a recursive_directory_iterator over an existing directory yields
RECURSIVE SetToSeq(_)
SetToSeq(S) ==
  IF S = {} THEN <<>>
  ELSE LET x == CHOOSE y \in S : TRUE
       IN  <<x>> \o SetToSeq(S \ {x})

recursive_directory_iterator(root) ==
  SetToSeq({p \in DOMAIN fs : exists(p) /\ startsWith(p, root \o <<"/">>)})

getRootDirectoriesByType(type) ==
  {mediaDirectories[i].path :
     i \in {j \in 1..Len(mediaDirectories) : mediaDirectories[j].type = type}}

(***************************************************************************)
(* The consistency sweeper.                                                *)
(***************************************************************************)
ZeroStats == [nbAdded |-> 0, nbModified |-> 0, nbRemoved |-> 0]
nbChanges(s) == s.nbAdded + s.nbModified + s.nbRemoved

checkFile(p, rootDirs, extensions) ==
  IF ~exists(p) \/ ~is_regular(p) THEN FALSE
  ELSE IF ~(\E rootDir \in rootDirs : find(p, rootDir)) THEN FALSE
  ELSE isFileSupported(p, extensions)

Without(table, removed) == [p \in DOMAIN table \ removed |-> table[p]]

NoSweep == [kind |-> "none", rows |-> {}, removed |-> {}, rootDirs |-> {},
            extensions |-> {}, before |-> ZeroStats, after |-> ZeroStats]

checkAudioFiles ==
  LET rootDirs == getRootDirectoriesByType("Audio")
      removed == {p \in DOMAIN tracks : ~checkFile(p, rootDirs, audioExtensions)}
      after == [stats EXCEPT !.nbRemoved = @ + Cardinality(removed)]
  IN  /\ tracks' = Without(tracks, removed)
      /\ stats' = after
      /\ lastSweep' = [kind |-> "Audio", rows |-> DOMAIN tracks,
                       removed |-> removed, rootDirs |-> rootDirs,
                       extensions |-> audioExtensions,
                       before |-> stats, after |-> after]

checkVideoFiles ==
  LET rootDirs == getRootDirectoriesByType("Video")
      removed == {p \in DOMAIN videos : ~checkFile(p, rootDirs, videoExtensions)}
      after == [stats EXCEPT !.nbRemoved = @ + Cardinality(removed)]
  IN  /\ videos' = Without(videos, removed)
      /\ stats' = after
      /\ lastSweep' = [kind |-> "Video", rows |-> DOMAIN videos,
                       removed |-> removed, rootDirs |-> rootDirs,
                       extensions |-> videoExtensions,
                       before |-> stats, after |-> after]

(***************************************************************************)
(* The metadata adapter's attribute bag.  An attribute is <<>> when the    *)
(* key is absent from MetaData::Items and <<v>> when it is present.        *)
(***************************************************************************)
Has(x) == x # <<>>
Val(x) == x[1]

\* time_duration::total_seconds() of a duration counted in half seconds:
\* the integer division truncates towards zero
total_seconds(d) == IF d >= 0 THEN d \div 2 ELSE 0 - ((0 - d) \div 2)

BaseBag ==
  [audioStreams |-> <<1>>, videoStreams |-> <<>>, duration |-> <<4>>,
   title |-> <<>>, genres |-> <<>>, artist |-> <<"A">>, artistMBID |-> <<>>,
   album |-> <<>>, albumMBID |-> <<>>, trackNumber |-> <<>>,
   discNumber |-> <<>>, date |-> <<>>, originalDate |-> <<>>,
   hasCover |-> <<FALSE>>]

VideoBag ==
  [BaseBag EXCEPT !.audioStreams = <<>>, !.videoStreams = <<1>>,
                  !.artist = <<>>, !.hasCover = <<>>]

(***************************************************************************)
(* The entity tables and the entity resolvers.                             *)
(***************************************************************************)
MinOf(S) == CHOOSE i \in S : \A j \in S : i <= j

\* Artist::getByMBID, Release::getByMBID: a row of the table or 0 (null)
getByMBID(table, mbid) ==
  LET S == {i \in 1..Len(table) : table[i].mbid = mbid /\ ~table[i].none}
  IN  IF S = {} THEN 0 ELSE MinOf(S)

\* Artist::getByName, Release::getByName: the rows with this name
getByName(table, name) ==
  {i \in 1..Len(table) : table[i].name = name /\ ~table[i].none}

\* Artist::create, Release::create
create(table, name, mbid) ==
  [table |-> Append(table, [name |-> name, mbid |-> mbid, none |-> FALSE]),
   ref |-> Len(table) + 1]

\* Artist::getNone, Release::getNone, Genre::getNone: the sentinel row,
\* created the first time it is asked for
getNone(table) ==
  LET S == {i \in 1..Len(table) : table[i].none}
  IN  IF S # {} THEN [table |-> table, ref |-> MinOf(S)]
      ELSE [table |-> Append(table, [name |-> "", mbid |-> "", none |-> TRUE]),
            ref |-> Len(table) + 1]

\* a getArtist that takes any artist of the name, with or without an MBID
getArtist_anyNamed(table, name, mbid) ==
  IF mbid # ""
  THEN LET artist == getByMBID(table, mbid)
       IN  IF artist = 0 THEN create(table, name, mbid)
           ELSE [table |-> table, ref |-> artist]
  ELSE IF name # ""
  THEN LET S == getByName(table, name)
       IN  IF S = {} THEN create(table, name, "")
           ELSE [table |-> table, ref |-> MinOf(S)]
  ELSE getNone(table)

\* a getArtist that creates a nameless artist where getNone() is called
getArtist_noSentinel(table, name, mbid) ==
  IF mbid # ""
  THEN LET artist == getByMBID(table, mbid)
       IN  IF artist = 0 THEN create(table, name, mbid)
           ELSE [table |-> table, ref |-> artist]
  ELSE IF name # ""
  THEN LET S == {i \in getByName(table, name) : table[i].mbid = ""}
       IN  IF S = {} THEN create(table, name, "")
           ELSE [table |-> table, ref |-> MinOf(S)]
  ELSE create(table, "", "")

\* lines 264-299
getArtist(table, name, mbid) ==
  IF mbid # ""
  THEN LET artist == getByMBID(table, mbid)
       IN  IF artist = 0 THEN create(table, name, mbid)
           ELSE [table |-> table, ref |-> artist]
  ELSE IF name # ""
  THEN LET S == {i \in getByName(table, name) : table[i].mbid = ""}
       IN  IF S = {} THEN create(table, name, "")
           ELSE [table |-> table, ref |-> MinOf(S)]
  ELSE getNone(table)

\* a getRelease that does not look at the MBID
getRelease_noId(table, name, mbid) ==
  IF name # ""
  THEN LET S == {i \in getByName(table, name) : table[i].mbid = ""}
       IN  IF S = {} THEN create(table, name, "")
           ELSE [table |-> table, ref |-> MinOf(S)]
  ELSE getNone(table)

\* a getRelease that creates a release for every name without an MBID
getRelease_alwaysCreate(table, name, mbid) ==
  IF mbid # ""
  THEN LET release == getByMBID(table, mbid)
       IN  IF release = 0 THEN create(table, name, mbid)
           ELSE [table |-> table, ref |-> release]
  ELSE IF name # "" THEN create(table, name, "")
  ELSE getNone(table)

\* lines 301-336
getRelease(table, name, mbid) ==
  IF mbid # ""
  THEN LET release == getByMBID(table, mbid)
       IN  IF release = 0 THEN create(table, name, mbid)
           ELSE [table |-> table, ref |-> release]
  ELSE IF name # ""
  THEN LET S == {i \in getByName(table, name) : table[i].mbid = ""}
       IN  IF S = {} THEN create(table, name, "")
           ELSE [table |-> table, ref |-> MinOf(S)]
  ELSE getNone(table)

\* getGenres(): [table, refs], the refs in the order of the names
RECURSIVE getGenresLoop(_, _, _)
getGenresLoop(table, names, refs) ==
  IF names = <<>> THEN [table |-> table, refs |-> refs]
  ELSE LET name == Head(names)
           S == getByName(table, name)
       IN  IF S # {}
           THEN getGenresLoop(table, Tail(names), Append(refs, MinOf(S)))
           ELSE getGenresLoop(create(table, name, "").table, Tail(names),
                              Append(refs, Len(table) + 1))

\* a getGenres without the final getNone()
getGenres_noSentinel(table, names) == getGenresLoop(table, names, <<>>)

getGenres(table, names) ==
  LET r == getGenresLoop(table, names, <<>>)
  IN  IF r.refs # <<>> THEN r
      ELSE LET n == getNone(r.table)
           IN  [table |-> n.table, refs |-> <<n.ref>>]

GenreNames(table, refs) == [i \in 1..Len(refs) |-> table[refs[i]].name]
Range(f) == {f[i] : i \in DOMAIN f}

(***************************************************************************)
(* The change appliers.  env is what the call finds outside the catalog:   *)
(*   fault           "none", or where an exception is thrown: "mtime"      *)
(*                   (last_write_time), "parse" (the metadata parser) or   *)
(*                   "commit" (after the row was written);                 *)
(*   lwt             the file's last write time;                           *)
(*   externalCovers  whether getCoverPaths() finds a cover in the          *)
(*                   file's directory;                                     *)
(*   items           the attribute bag the parser returns.                 *)
(* The result is the catalog and the Stats the call leaves behind.         *)
(***************************************************************************)
\* Track::create(): the row before any setter is called
NewTrack ==
  [artist |-> 0, release |-> 0, lastWriteTime |-> 0 - 1, name |-> <<>>,
   duration |-> 0, genreList |-> <<>>, genres |-> {}, trackNumber |-> <<>>,
   discNumber |-> <<>>, date |-> <<>>, originalDate |-> <<>>,
   coverType |-> "None"]

Catalog == [tracks |-> tracks, videos |-> videos, artists |-> artists,
            releases |-> releases, genres |-> genres]

Unchanged(outcome, extracted) ==
  [outcome |-> outcome, extracted |-> extracted, catalog |-> Catalog,
   stats |-> stats]

\* a transaction that commits although an exception unwinds it
rollback_commit(written) == written

\* lines 543-545 and 764-766: the exception leaves the try block, the
\* Transaction is destroyed uncommitted and what it wrote is rolled back
rollback(written) == Catalog

\* lines 362-384: the file is the same as at the last update
\* a skip test that looks at the last write time only
audioSkip_noCoverCheck(file, env) ==
  /\ file \in DOMAIN tracks
  /\ tracks[file].lastWriteTime = env.lwt

audioSkip(file, env) ==
  /\ file \in DOMAIN tracks
  /\ tracks[file].lastWriteTime = env.lwt
  /\ \/ tracks[file].coverType = "Embedded"
     \/ tracks[file].coverType = "None" /\ ~env.externalCovers
     \/ tracks[file].coverType = "ExternalFile" /\ env.externalCovers

\* a test that takes a negative duration for the duration of a track
audioDisqualified_zero(items) ==
  \/ ~Has(items.audioStreams)
  \/ Val(items.audioStreams) = 0
  \/ ~Has(items.duration)
  \/ total_seconds(Val(items.duration)) = 0

\* lines 389-415: not an audio file
audioDisqualified(items) ==
  \/ ~Has(items.audioStreams)
  \/ Val(items.audioStreams) = 0
  \/ ~Has(items.duration)
  \/ total_seconds(Val(items.duration)) <= 0

\* a count that takes every write for a creation
countWrite_added(present) == [stats EXCEPT !.nbAdded = @ + 1]

\* lines 476-487 and 744-754: the row is created and counted as added if
\* the path has none, and is counted as modified otherwise
countWrite(present) ==
  IF present THEN [stats EXCEPT !.nbModified = @ + 1]
  ELSE [stats EXCEPT !.nbAdded = @ + 1]

\* lines 417-539: the row as the setters leave it
audioRow(file, env, base, artist, release, g) ==
  LET items == env.items
      r1 == [base EXCEPT
               !.artist = artist, !.release = release,
               !.lastWriteTime = env.lwt,
               !.name = IF Has(items.title) THEN Val(items.title)
                        ELSE filename(file),
               !.duration = Val(items.duration),
               !.genreList = GenreNames(g.table, g.refs),
               !.genres = Range(g.refs)]
      r2 == IF Has(items.trackNumber)
            THEN [r1 EXCEPT !.trackNumber = items.trackNumber] ELSE r1
      r3 == IF Has(items.discNumber)
            THEN [r2 EXCEPT !.discNumber = items.discNumber] ELSE r2
      r4 == IF Has(items.date) THEN [r3 EXCEPT !.date = items.date] ELSE r3
      r5 == IF Has(items.originalDate)
            THEN [r4 EXCEPT !.originalDate = items.originalDate,
                            !.date = IF Has(items.date) THEN @
                                     ELSE items.originalDate]
            ELSE r4
  IN  IF Has(items.hasCover)
      THEN [r5 EXCEPT !.coverType =
                        IF Val(items.hasCover) THEN "Embedded"
                        ELSE IF env.externalCovers THEN "ExternalFile"
                        ELSE "None"]
      ELSE r5

audioFileResult(file, env) ==
  LET items == env.items
      present == file \in DOMAIN tracks
  IN  IF env.fault = "mtime" THEN Unchanged("error", FALSE)
      ELSE IF audioSkip(file, env) THEN Unchanged("skip", FALSE)
      ELSE IF env.fault = "parse" THEN Unchanged("error", TRUE)
      ELSE IF audioDisqualified(items)
      THEN IF present
           THEN [outcome |-> "removed", extracted |-> TRUE,
                 catalog |-> [Catalog EXCEPT !.tracks = Without(tracks, {file})],
                 stats |-> [stats EXCEPT !.nbRemoved = @ + 1]]
           ELSE Unchanged("disqualified", TRUE)
      ELSE
        LET g == getGenres(genres,
                           IF Has(items.genres) THEN Val(items.genres) ELSE <<>>)
            a == getArtist(artists,
                           IF Has(items.artist) THEN Val(items.artist) ELSE "",
                           IF Has(items.artistMBID) THEN Val(items.artistMBID)
                           ELSE "")
            r == getRelease(releases,
                            IF Has(items.album) THEN Val(items.album) ELSE "",
                            IF Has(items.albumMBID) THEN Val(items.albumMBID)
                            ELSE "")
            base == IF present THEN tracks[file] ELSE NewTrack
            row == audioRow(file, env, base, a.ref, r.ref, g)
            counted == countWrite(present)
            written == [tracks |-> [p \in DOMAIN tracks \cup {file} |->
                                      IF p = file THEN row ELSE tracks[p]],
                        videos |-> videos, artists |-> a.table,
                        releases |-> r.table, genres |-> g.table]
        IN  IF env.fault = "commit"
            THEN [outcome |-> "error", extracted |-> TRUE,
                  catalog |-> rollback(written), stats |-> counted]
            ELSE [outcome |-> IF present THEN "modified" ELSE "added",
                  extracted |-> TRUE, catalog |-> written, stats |-> counted]

\* lines 713-739: not a video file
videoDisqualified(items) ==
  \/ ~Has(items.videoStreams)
  \/ Val(items.videoStreams) = 0
  \/ ~Has(items.duration)
  \/ total_seconds(Val(items.duration)) = 0

\* lines 705-708: the file is the same as at the last update
videoSkip(file, env) ==
  file \in DOMAIN videos /\ videos[file].lastWriteTime = env.lwt

videoFileResult(file, env) ==
  LET items == env.items
      present == file \in DOMAIN videos
  IN  IF env.fault = "mtime" THEN Unchanged("error", FALSE)
      ELSE IF videoSkip(file, env) THEN Unchanged("skip", FALSE)
      ELSE IF env.fault = "parse" THEN Unchanged("error", TRUE)
      ELSE IF videoDisqualified(items)
      THEN IF present
           THEN [outcome |-> "removed", extracted |-> TRUE,
                 catalog |-> [Catalog EXCEPT !.videos = Without(videos, {file})],
                 stats |-> [stats EXCEPT !.nbRemoved = @ + 1]]
           ELSE Unchanged("disqualified", TRUE)
      ELSE
        LET row == [name |-> filename(file), duration |-> Val(items.duration),
                    lastWriteTime |-> env.lwt]
            counted == countWrite(present)
            written == [Catalog EXCEPT !.videos =
                          [p \in DOMAIN videos \cup {file} |->
                             IF p = file THEN row ELSE videos[p]]]
        IN  IF env.fault = "commit"
            THEN [outcome |-> "error", extracted |-> TRUE,
                  catalog |-> rollback(written), stats |-> counted]
            ELSE [outcome |-> IF present THEN "modified" ELSE "added",
                  extracted |-> TRUE, catalog |-> written, stats |-> counted]

NoFile == [kind |-> "none", file |-> <<>>, env |-> <<>>, outcome |-> "none",
           extracted |-> FALSE, before |-> <<>>, statsBefore |-> ZeroStats,
           statsAfter |-> ZeroStats]

ApplyFile(kind, file, env, r) ==
  /\ tracks' = r.catalog.tracks
  /\ videos' = r.catalog.videos
  /\ artists' = r.catalog.artists
  /\ releases' = r.catalog.releases
  /\ genres' = r.catalog.genres
  /\ stats' = r.stats
  /\ lastFile' = [kind |-> kind, file |-> file, env |-> env,
                  outcome |-> r.outcome, extracted |-> r.extracted,
                  before |-> Catalog, statsBefore |-> stats,
                  statsAfter |-> r.stats]

processAudioFile(file, env) ==
  ApplyFile("Audio", file, env, audioFileResult(file, env))

processVideoFile(file, env) ==
  ApplyFile("Video", file, env, videoFileResult(file, env))

(***************************************************************************)
(* TransactionChecker (debug build: LMS_CHECK_TRANSACTION_ACCESSES is 1).  *)
(* transactionStack is thread_local: every thread has a stack of its own.  *)
(* A failed assert aborts the process: nothing happens after it.           *)
(***************************************************************************)
Threads == {"t1", "t2"}
Sessions == {"s1", "s2"}
TransactionTypes == {"Read", "Write"}

StackEntry(type, session) == [type |-> type, session |-> session]

empty(stack) == stack = <<>>
back(stack) == stack[Len(stack)]

NoCheck == [kind |-> "none", thread |-> "t1", session |-> "s1",
            stack |-> <<>>, accepted |-> TRUE]

\* the call of `kind` by `thread` about `session`, over the stack it found
Check(kind, thread, session, accepted) ==
  [kind |-> kind, thread |-> thread, session |-> session,
   stack |-> transactionStack[thread], accepted |-> accepted]

\* an assert has failed
aborted == ~lastCheck.accepted

\* TransactionChecker::pushTransaction
pushTransaction(thread, type, session) ==
  LET stack == transactionStack[thread]
      ok == empty(stack) \/ back(stack).session = session
  IN  /\ ~aborted
      /\ Len(stack) < MaxDepth
      /\ lastCheck' = Check("push", thread, session, ok)
      /\ transactionStack' =
           IF ok THEN [transactionStack EXCEPT
                         ![thread] = Append(stack, StackEntry(type, session))]
           ELSE transactionStack
      /\ UNCHANGED <<updaterVars, migrationVars, cacherVars>>

\* TransactionChecker::popTransaction
popTransaction(thread, type, session) ==
  LET stack == transactionStack[thread]
      ok == /\ ~empty(stack)
            /\ back(stack).type = type
            /\ back(stack).session = session
  IN  /\ ~aborted
      /\ lastCheck' = Check("pop", thread, session, ok)
      /\ transactionStack' =
           IF ok THEN [transactionStack EXCEPT
                         ![thread] = SubSeq(stack, 1, Len(stack) - 1)]
           ELSE transactionStack
      /\ UNCHANGED <<updaterVars, migrationVars, cacherVars>>

\* TransactionChecker::checkWriteTransaction(Wt::Dbo::Session&)
checkWriteTransaction(thread, session) ==
  LET stack == transactionStack[thread]
      ok == /\ ~empty(stack)
            /\ back(stack).type = "Write"
            /\ back(stack).session = session
  IN  /\ ~aborted
      /\ lastCheck' = Check("write", thread, session, ok)
      /\ UNCHANGED <<transactionStack, updaterVars, migrationVars, cacherVars>>

\* TransactionChecker::checkReadTransaction(Wt::Dbo::Session&)
checkReadTransaction(thread, session) ==
  LET stack == transactionStack[thread]
      ok == /\ ~empty(stack)
            /\ back(stack).session = session
  IN  /\ ~aborted
      /\ lastCheck' = Check("read", thread, session, ok)
      /\ UNCHANGED <<transactionStack, updaterVars, migrationVars, cacherVars>>

(***************************************************************************)
(* Migration: doDbMigration() inside its write transaction.  The steps are *)
(* the keys of migrationFunctions; migration.steps is the sequence of the  *)
(* keys whose function has been called.                                    *)
(***************************************************************************)
\* the keys of the map migrationFunctions
migrationFunctions == 32..46

\* the version of the schema the binary was built for
LMS_DATABASE_VERSION == 47

\* migrationFunctions.begin()->first
begin_first == MinOf(migrationFunctions)

NoMigration == [pc |-> "idle", version |-> 0, from |-> 0, steps |-> <<>>]

\* doDbMigration(): the version is read, and compared with the version of
\* the binary only
doDbMigration_enter_noFloor ==
  /\ migration.pc = "idle"
  /\ migration' =
       [migration EXCEPT
          !.version = versionInfo,
          !.from = versionInfo,
          !.pc = IF versionInfo > LMS_DATABASE_VERSION THEN "error"
                 ELSE "loop"]
  /\ UNCHANGED <<versionInfo, updaterVars, checkerVars, cacherVars>>

\* doDbMigration(): the version is read and compared with what the binary
\* supports; an exception leaves the function and the transaction
doDbMigration_enter ==
  /\ migration.pc = "idle"
  /\ migration' =
       [migration EXCEPT
          !.version = versionInfo,
          !.from = versionInfo,
          !.pc = IF versionInfo > LMS_DATABASE_VERSION THEN "error"
                 ELSE IF versionInfo < begin_first THEN "error"
                 ELSE "loop"]
  /\ UNCHANGED <<versionInfo, updaterVars, checkerVars, cacherVars>>

\* one turn of the loop: the function of the version is called, then the
\* version is incremented and stored
doDbMigration_step ==
  /\ migration.pc = "loop"
  /\ migration.version < LMS_DATABASE_VERSION
  /\ migration.version \in migrationFunctions
  /\ migration' = [migration EXCEPT
                     !.steps = Append(@, migration.version),
                     !.version = @ + 1]
  /\ versionInfo' = migration.version + 1
  /\ UNCHANGED <<updaterVars, checkerVars, cacherVars>>

\* the loop ends and the transaction commits
doDbMigration_return ==
  /\ migration.pc = "loop"
  /\ ~(migration.version < LMS_DATABASE_VERSION)
  /\ migration' = [migration EXCEPT !.pc = "done"]
  /\ UNCHANGED <<versionInfo, updaterVars, checkerVars, cacherVars>>

(***************************************************************************)
(* RequestCacher: mLookupTable is a std::map, here a function whose domain *)
(* is the set of the keys of the map.                                      *)
(***************************************************************************)
\* std::map::operator[]: a key that is absent is inserted with an empty value
subscript(table, key) ==
  [k \in DOMAIN table \cup {key} |->
     IF k \in DOMAIN table THEN table[k] ELSE <<>>]

\* std::map::emplace: a key that is present keeps its value
emplace(table, key, values) ==
  [k \in DOMAIN table \cup {key} |->
     IF k \in DOMAIN table THEN table[k] ELSE values]

NoHas == [kind |-> "none", key |-> <<>>, result |-> FALSE, added |-> {}]

\* RequestCacher::hasCache
hasCache(aClusters) ==
  /\ mLookupTable' = subscript(mLookupTable, aClusters)
  /\ lastHas' = [kind |-> "has", key |-> aClusters,
                 result |-> ~empty(mLookupTable'[aClusters]),
                 added |-> added]
  /\ UNCHANGED <<added, updaterVars, checkerVars, migrationVars>>

\* RequestCacher::addToCache
addToCache(aClusters, aValues) ==
  /\ mLookupTable' = emplace(mLookupTable, aClusters, aValues)
  /\ added' = IF empty(aValues) THEN added ELSE added \cup {aClusters}
  /\ UNCHANGED <<lastHas, updaterVars, checkerVars, migrationVars>>

\* RequestCacher::invalidateCache
invalidateCache ==
  /\ mLookupTable' = <<>>
  /\ added' = {}
  /\ UNCHANGED <<lastHas, updaterVars, checkerVars, migrationVars>>

\* the three libraries before their first call
LibInit ==
  /\ transactionStack = [thread \in Threads |-> <<>>]
  /\ lastCheck = NoCheck
  /\ versionInfo = LMS_DATABASE_VERSION
  /\ migration = NoMigration
  /\ mLookupTable = <<>>
  /\ added = {}
  /\ lastHas = NoHas

(***************************************************************************)
(* The engine as a concurrent system.                                      *)
(*                                                                         *)
(* The controlling thread constructs the Updater (ctl = "idle"), calls     *)
(* start() once ("started") and stop() once: stop() clears _running,       *)
(* cancels the timer and then waits inside _ioService.stop() until the     *)
(* io-service thread has run out of work ("stopping"), and returns         *)
(* ("stopped").  A stopped engine is not started again.                       *)
(*                                                                         *)
(* The io-service thread (setThreadCount(1)) runs the queued completion    *)
(* handlers one at a time; pc is its place inside process().  It reads     *)
(* _running at lines 249, 254, 259, 555 and 565, each a step of its own,   *)
(* since stop() may clear the flag between any two of them.                *)
(***************************************************************************)
TimerIdle == [armed |-> FALSE, at |-> NotATime]

NoPass == [stopped |-> FALSE, stoppedEarly |-> FALSE, scanSaved |-> FALSE,
           manualPending |-> FALSE, manualCleared |-> FALSE]

\* Updater::start()
Start ==
  /\ ctl = "idle"
  /\ running' = TRUE
  /\ processNextJob
  /\ ctl' = "started"
  /\ UNCHANGED <<now, settings, walkVars, configVars, fs, catalogVars,
                 lastFile, lastSweep, pass>>

\* Updater::stop(), up to the wait inside _ioService.stop(): a wait that is
\* still pending is cancelled and its handler queued with operation_aborted;
\* a handler already queued by an expired timer is not affected.
Stop ==
  /\ ctl = "started"
  /\ running' = FALSE
  /\ IF timer.armed
     THEN timer' = TimerIdle /\ queue' = Append(queue, "aborted")
     ELSE UNCHANGED <<timer, queue>>
  /\ ctl' = "stopping"
  /\ pass' = IF pc \in {"idle", "readRunning", "nextJob"} THEN pass
             ELSE [pass EXCEPT !.stopped = TRUE,
                               !.stoppedEarly = @ \/ pc # "clearManual"]
  /\ UNCHANGED <<now, settings, walkVars, configVars, fs, catalogVars,
                 lastJob, lastFile, lastSweep>>

\* _ioService.stop() returns: the io-service thread has no work left
StopReturn ==
  /\ ctl = "stopping"
  /\ pc = "idle" /\ queue = <<>> /\ ~timer.armed
  /\ ctl' = "stopped"
  /\ UNCHANGED <<now, settings, running, timer, queue, walkVars, configVars,
                 fs, catalogVars, historyVars>>

\* the deadline passes: the wait completes and its handler is queued
TimerExpires ==
  /\ ctl \in {"started", "stopping"}
  /\ timer.armed /\ TimeLE(timer.at, now)
  /\ timer' = TimerIdle
  /\ queue' = Append(queue, "ok")
  /\ UNCHANGED <<now, settings, ctl, running, walkVars, configVars, fs,
                 catalogVars, historyVars>>

\* a process() that arms the timer again before the pass
process_enter_rearm ==
  /\ ctl \in {"started", "stopping"}
  /\ pc = "idle" /\ queue # <<>>
  /\ IF Head(queue) = "ok"
     THEN /\ pc' = "checkAudio"
          /\ stats' = ZeroStats
          /\ pass' = [NoPass EXCEPT !.stopped = ~running,
                                    !.stoppedEarly = ~running]
          /\ timer' = [armed |-> TRUE, at |-> now]
          /\ queue' = Tail(queue)
     ELSE queue' = Tail(queue) /\ UNCHANGED <<pc, stats, pass, timer>>
  /\ UNCHANGED <<now, settings, ctl, running, rootDirectories, itPath,
                 configVars, fs, catalogVars, lastJob, lastFile, lastSweep>>

\* a process() that goes to the snapshot without the two sweeps
process_enter_noSweep ==
  /\ ctl \in {"started", "stopping"}
  /\ pc = "idle" /\ queue # <<>>
  /\ queue' = Tail(queue)
  /\ IF Head(queue) = "ok"
     THEN /\ pc' = "snapshot"
          /\ stats' = ZeroStats
          /\ pass' = [NoPass EXCEPT !.stopped = ~running,
                                    !.stoppedEarly = ~running]
     ELSE UNCHANGED <<pc, stats, pass>>
  /\ UNCHANGED <<now, settings, ctl, running, timer, rootDirectories, itPath,
                 configVars, fs, catalogVars, lastJob, lastFile, lastSweep>>

\* process(err), line 217: the handler is called
process_enter ==
  /\ ctl \in {"started", "stopping"}
  /\ pc = "idle" /\ queue # <<>>
  /\ queue' = Tail(queue)
  /\ IF Head(queue) = "ok"
     THEN /\ pc' = "checkAudio"
          /\ stats' = ZeroStats
          /\ pass' = [NoPass EXCEPT !.stopped = ~running,
                                    !.stoppedEarly = ~running]
     ELSE UNCHANGED <<pc, stats, pass>>
  /\ UNCHANGED <<now, settings, ctl, running, timer, rootDirectories, itPath,
                 configVars, fs, catalogVars, lastJob, lastFile, lastSweep>>

\* a sweep that goes on to remove the genres once no track has a genre
\* (the block commented out at lines 653-665)
process_checkAudioFiles_orphans ==
  /\ pc = "checkAudio"
  /\ checkAudioFiles
  /\ genres' = IF \E p \in DOMAIN tracks' : tracks'[p].genres # {}
               THEN genres ELSE <<>>
  /\ pc' = "checkVideo"
  /\ UNCHANGED <<now, settings, ctl, running, timer, queue, rootDirectories,
                 itPath, configVars, fs, videos, artists, releases,
                 lastJob, lastFile, pass>>

\* line 221
process_checkAudioFiles ==
  /\ pc = "checkAudio"
  /\ checkAudioFiles
  /\ pc' = "checkVideo"
  /\ UNCHANGED <<now, settings, ctl, running, timer, queue, rootDirectories,
                 itPath, configVars, fs, videos, artists, releases, genres,
                 lastJob, lastFile, pass>>

\* line 222
process_checkVideoFiles ==
  /\ pc = "checkVideo"
  /\ checkVideoFiles
  /\ pc' = "snapshot"
  /\ UNCHANGED <<now, settings, ctl, running, timer, queue, rootDirectories,
                 itPath, configVars, fs, tracks, artists, releases, genres,
                 lastJob, lastFile, pass>>

\* a snapshot that takes the root directories out of the configuration
process_snapshot_move ==
  /\ pc = "snapshot"
  /\ rootDirectories' = mediaDirectories
  /\ mediaDirectories' = <<>>
  /\ pc' = "walk"
  /\ UNCHANGED <<now, settings, ctl, running, timer, queue, stats, itPath,
                 audioExtensions, videoExtensions, fs, catalogVars,
                 historyVars>>

\* lines 224-231
process_snapshot ==
  /\ pc = "snapshot"
  /\ rootDirectories' = mediaDirectories
  /\ pc' = "walk"
  /\ UNCHANGED <<now, settings, ctl, running, timer, queue, stats, itPath,
                 configVars, fs, catalogVars, historyVars>>

\* a processDirectory that does not test the root directory before it
\* walks it: the iterator throws on a path that is not a directory, and the
\* exception leaves process()
processDirectory_enter_noExists ==
  /\ pc = "walk"
  /\ IF rootDirectories = <<>>
     THEN pc' = "saveScan" /\ UNCHANGED <<rootDirectories, itPath>>
     ELSE LET p == Head(rootDirectories).path
          IN  IF ~running
              THEN /\ rootDirectories' = Tail(rootDirectories)
                   /\ UNCHANGED <<pc, itPath>>
              ELSE IF ~exists(p) \/ ~is_directory(p)
              THEN pc' = "idle" /\ rootDirectories' = <<>> /\ UNCHANGED itPath
              ELSE /\ itPath' = recursive_directory_iterator(p)
                   /\ pc' = "iterate"
                   /\ UNCHANGED rootDirectories
  /\ UNCHANGED <<now, settings, ctl, running, timer, queue, stats, configVars,
                 fs, catalogVars, historyVars>>

\* a processDirectory that does not read _running before it walks
processDirectory_enter_noCheck ==
  /\ pc = "walk"
  /\ IF rootDirectories = <<>>
     THEN pc' = "saveScan" /\ UNCHANGED <<rootDirectories, itPath>>
     ELSE LET p == Head(rootDirectories).path
          IN  IF ~exists(p) \/ ~is_directory(p)
              THEN /\ rootDirectories' = Tail(rootDirectories)
                   /\ UNCHANGED <<pc, itPath>>
              ELSE /\ itPath' = recursive_directory_iterator(p)
                   /\ pc' = "iterate"
                   /\ UNCHANGED rootDirectories
  /\ UNCHANGED <<now, settings, ctl, running, timer, queue, stats, configVars,
                 fs, catalogVars, historyVars>>

\* lines 233-234 and 555-562: the next root directory, if any
processDirectory_enter ==
  /\ pc = "walk"
  /\ IF rootDirectories = <<>>
     THEN pc' = "saveScan" /\ UNCHANGED <<rootDirectories, itPath>>
     ELSE LET p == Head(rootDirectories).path
          IN  IF ~running \/ ~exists(p) \/ ~is_directory(p)
              THEN /\ rootDirectories' = Tail(rootDirectories)
                   /\ UNCHANGED <<pc, itPath>>
              ELSE /\ itPath' = recursive_directory_iterator(p)
                   /\ pc' = "iterate"
                   /\ UNCHANGED rootDirectories
  /\ UNCHANGED <<now, settings, ctl, running, timer, queue, stats, configVars,
                 fs, catalogVars, historyVars>>

\* a file written without any audio or video stream in it
NoMedia == "nomedia"

\* calls that take the last write time of every file for 0
EnvOf_noMtime(file) ==
  [fault |-> fs[file].fault, lwt |-> 0,
   externalCovers |-> (parent_path(file) \in DOMAIN fs
                       /\ fs[parent_path(file)].cover),
   items |-> IF extension(file) = ExtY THEN VideoBag ELSE BaseBag]

\* what a file of the library holds, as the calls of a pass find it
EnvOf(file) ==
  [fault |-> fs[file].fault, lwt |-> fs[file].mtime,
   externalCovers |-> (parent_path(file) \in DOMAIN fs
                       /\ fs[parent_path(file)].cover),
   items |-> IF extension(file) = ExtY
             THEN IF fs[file].fault = NoMedia
                  THEN [VideoBag EXCEPT !.videoStreams = <<>>] ELSE VideoBag
             ELSE IF fs[file].fault = NoMedia
                  THEN [BaseBag EXCEPT !.audioStreams = <<>>] ELSE BaseBag]

\* a loop out of which the exception of a file escapes: the walk is over
processDirectory_next_throw ==
  /\ pc = "iterate"
  /\ IF itPath = <<>> \/ ~running
     THEN /\ rootDirectories' = Tail(rootDirectories)
          /\ itPath' = <<>>
          /\ pc' = "walk"
          /\ UNCHANGED <<stats, catalogVars, lastFile>>
     ELSE LET file == Head(itPath)
              type == Head(rootDirectories).type
              audio == is_regular(file) /\ type = "Audio"
                       /\ isFileSupported(file, audioExtensions)
              video == is_regular(file) /\ type = "Video"
                       /\ isFileSupported(file, videoExtensions)
              thrown ==
                \/ audio /\ audioFileResult(file, EnvOf(file)).outcome = "error"
                \/ video /\ videoFileResult(file, EnvOf(file)).outcome = "error"
          IN  /\ IF thrown
                 THEN itPath' = <<>> /\ rootDirectories' = <<>> /\ pc' = "idle"
                 ELSE itPath' = Tail(itPath) /\ UNCHANGED <<pc, rootDirectories>>
              /\ IF audio THEN processAudioFile(file, EnvOf(file))
                 ELSE IF video THEN processVideoFile(file, EnvOf(file))
                 ELSE UNCHANGED <<stats, catalogVars, lastFile>>
  /\ UNCHANGED <<now, settings, ctl, running, timer, queue, configVars, fs,
                 lastJob, lastSweep, pass>>

\* lines 563-585: one turn of the loop over the directory's entries
processDirectory_next ==
  /\ pc = "iterate"
  /\ IF itPath = <<>> \/ ~running
     THEN /\ rootDirectories' = Tail(rootDirectories)
          /\ itPath' = <<>>
          /\ pc' = "walk"
          /\ UNCHANGED <<stats, catalogVars, lastFile>>
     ELSE LET file == Head(itPath)
              type == Head(rootDirectories).type
          IN  /\ itPath' = Tail(itPath)
              /\ UNCHANGED <<pc, rootDirectories>>
              /\ IF is_regular(file) /\ type = "Audio"
                    /\ isFileSupported(file, audioExtensions)
                 THEN processAudioFile(file, EnvOf(file))
                 ELSE IF is_regular(file) /\ type = "Video"
                         /\ isFileSupported(file, videoExtensions)
                 THEN processVideoFile(file, EnvOf(file))
                 ELSE UNCHANGED <<stats, catalogVars, lastFile>>
  /\ UNCHANGED <<now, settings, ctl, running, timer, queue, configVars, fs,
                 lastJob, lastSweep, pass>>

\* a bookkeeping step that sets lastUpdate only when the pass was completed
process_saveScan_completed ==
  /\ pc = "saveScan"
  /\ settings' = [settings EXCEPT
                    !.lastUpdate = IF nbChanges(stats) > 0 /\ running
                                   THEN now ELSE @,
                    !.lastScan = IF running THEN now ELSE @]
  /\ pass' = [pass EXCEPT !.scanSaved = running,
                          !.manualPending = settings.manualScanRequested]
  /\ pc' = "clearManual"
  /\ UNCHANGED <<now, ctl, running, timer, queue, stats, rootDirectories,
                 itPath, configVars, fs, catalogVars, lastJob, lastFile,
                 lastSweep>>

\* lines 239-250: the clock is read, the settings row is loaded inside the
\* transaction, lastUpdate and lastScan are set
process_saveScan ==
  /\ pc = "saveScan"
  /\ settings' = [settings EXCEPT
                    !.lastUpdate = IF nbChanges(stats) > 0 THEN now ELSE @,
                    !.lastScan = IF running THEN now ELSE @]
  /\ pass' = [pass EXCEPT !.scanSaved = running,
                          !.manualPending = settings.manualScanRequested]
  /\ pc' = "clearManual"
  /\ UNCHANGED <<now, ctl, running, timer, queue, stats, rootDirectories,
                 itPath, configVars, fs, catalogVars, lastJob, lastFile,
                 lastSweep>>

\* lines 252-257: the manual scan is done, and the transaction commits
process_clearManual ==
  /\ pc = "clearManual"
  /\ settings' = [settings EXCEPT
                    !.manualScanRequested =
                       IF settings.manualScanRequested /\ running
                       THEN FALSE ELSE @]
  /\ pass' = [pass EXCEPT !.manualCleared =
                             settings.manualScanRequested /\ running]
  /\ pc' = "readRunning"
  /\ UNCHANGED <<now, ctl, running, timer, queue, stats, rootDirectories,
                 itPath, configVars, fs, catalogVars, lastJob, lastFile,
                 lastSweep>>

\* line 259
process_readRunning ==
  /\ pc = "readRunning"
  /\ pc' = IF running THEN "nextJob" ELSE "idle"
  /\ UNCHANGED <<now, settings, ctl, running, timer, queue, stats,
                 rootDirectories, itPath, configVars, fs, catalogVars,
                 historyVars>>

\* line 260
process_nextJob ==
  /\ pc = "nextJob"
  /\ processNextJob
  /\ pc' = "idle"
  /\ UNCHANGED <<now, settings, ctl, running, stats, rootDirectories, itPath,
                 configVars, fs, catalogVars, lastFile, lastSweep, pass>>

\* An external writer of the settings asks for a manual scan; its
\* transaction does not run inside the open transaction of lines 241-257.
RequestManualScan ==
  /\ pc # "clearManual"
  /\ ~settings.manualScanRequested
  /\ settings' = [settings EXCEPT !.manualScanRequested = TRUE]
  /\ UNCHANGED <<now, ctl, running, timer, queue, walkVars, configVars, fs,
                 catalogVars, historyVars>>

\* the clock advances
Tick ==
  /\ \/ /\ now.tod < ClockTod
        /\ now' = Time(now.date, now.tod + 1)
     \/ /\ now.tod = ClockTod
        /\ now.date < ClockFirstDay + ClockDays
        /\ now' = Time(now.date + 1, 0)
  /\ UNCHANGED <<settings, ctl, running, timer, queue, walkVars, configVars,
                 fs, catalogVars, historyVars>>

\* an entry of the file system: its kind, its last write time, whether its
\* directory holds a cover file, and the call on it that throws, if any
Entry(kind, mtime, cover) ==
  [kind |-> kind, mtime |-> mtime, cover |-> cover, fault |-> "none"]
Missing == Entry("missing", 0, FALSE)

\* a library of one audio root and one video root with one file each; the
\* catalog holds the row of a track whose file has since been deleted
SpecFs ==
  [p \in Files \cup Dirs |->
     IF p \in {DirM, DirV} THEN Entry("directory", 0, FALSE)
     ELSE IF p \in {FileMA, FileVC} THEN Entry("regular", 0, FALSE)
     ELSE Missing]

StaleTrack == [NewTrack EXCEPT !.lastWriteTime = 0, !.duration = 4]

\* the engine as constructed, over an empty catalog
EngineInit ==
  /\ ctl = "idle"
  /\ running = FALSE
  /\ timer = TimerIdle
  /\ queue = <<>>
  /\ pc = "idle"
  /\ stats = ZeroStats
  /\ rootDirectories = <<>>
  /\ itPath = <<>>
  /\ lastJob = NoJob
  /\ lastFile = NoFile
  /\ lastSweep = NoSweep
  /\ pass = NoPass

LibraryInit ==
  /\ mediaDirectories = <<[path |-> DirM, type |-> "Audio"],
                          [path |-> DirV, type |-> "Video"]>>
  /\ audioExtensions = {ExtX}
  /\ videoExtensions = {ExtY}
  /\ fs = SpecFs
  /\ tracks = [p \in {FileMB} |-> StaleTrack]
  /\ videos = <<>>
  /\ artists = <<>>
  /\ releases = <<>>
  /\ genres = <<>>

SettingsOver(tods) ==
  [updatePeriod : UpdatePeriods, updateStartTime : tods,
   manualScanRequested : BOOLEAN,
   lastScan : {NotATime}, lastUpdate : {NotATime}]

Init ==
  /\ now \in {Time(ClockFirstDay, t) : t \in 0..ClockTod}
  /\ settings \in SettingsOver(0..ClockTod)
  /\ EngineInit
  /\ LibraryInit
  /\ LibInit

Next ==
  \/ Start /\ UNCHANGED libVars
  \/ Stop /\ UNCHANGED libVars
  \/ StopReturn /\ UNCHANGED libVars
  \/ TimerExpires /\ UNCHANGED libVars
  \/ process_enter /\ UNCHANGED libVars
  \/ process_checkAudioFiles /\ UNCHANGED libVars
  \/ process_checkVideoFiles /\ UNCHANGED libVars
  \/ process_snapshot /\ UNCHANGED libVars
  \/ processDirectory_enter /\ UNCHANGED libVars
  \/ processDirectory_next /\ UNCHANGED libVars
  \/ process_saveScan /\ UNCHANGED libVars
  \/ process_clearManual /\ UNCHANGED libVars
  \/ process_readRunning /\ UNCHANGED libVars
  \/ process_nextJob /\ UNCHANGED libVars
  \/ RequestManualScan /\ UNCHANGED libVars
  \/ Tick /\ UNCHANGED libVars

Spec == Init /\ [][Next]_vars

(***************************************************************************)
(* LiveSpec: Spec with the io-service thread running on: a handler that    *)
(* is queued is called, a deadline that has passed completes its wait, and *)
(* a pass that has begun goes on to its end.  Nothing is assumed of the    *)
(* controlling thread, of the writers of the settings or of the clock.     *)
(***************************************************************************)
IoThread ==
  /\ \/ TimerExpires
     \/ process_enter
     \/ process_checkAudioFiles
     \/ process_checkVideoFiles
     \/ process_snapshot
     \/ processDirectory_enter
     \/ processDirectory_next
     \/ process_saveScan
     \/ process_clearManual
     \/ process_readRunning
     \/ process_nextJob
  /\ UNCHANGED libVars

LiveSpec == Init /\ [][Next]_vars /\ WF_vars(IoThread)

(***************************************************************************)
(* DateSpec: start() at every time of the window, under every update       *)
(* period and start time.                                                  *)
(***************************************************************************)
DateInit ==
  /\ now \in {Time(d, t) : d \in 0..MaxDate, t \in 0..MaxTod}
  /\ settings \in SettingsOver(0..MaxTod)
  /\ EngineInit
  /\ LibraryInit
  /\ LibInit

DateNext ==
  \/ Start /\ UNCHANGED libVars

DateSpec == DateInit /\ [][DateNext]_vars

(***************************************************************************)
(* SweepSpec: the two sweeps over catalogs whose rows were written under   *)
(* an earlier configuration, with at most one file of the library no       *)
(* longer a regular file.                                                  *)
(***************************************************************************)
SweepFiles == {FileMA, FileBMA, FileMB, FileVC}

SweepFss ==
  {[p \in Files \cup Dirs |->
      IF p = q THEN Entry(k, 0, FALSE)
      ELSE IF p \in SweepFiles THEN Entry("regular", 0, FALSE)
      ELSE IF p \in Dirs THEN Entry("directory", 0, FALSE)
      ELSE Missing] :
     q \in SweepFiles, k \in {"missing", "regular", "directory"}}

SweepRoots ==
  {<<>>,
   <<[path |-> DirM, type |-> "Audio"]>>,
   <<[path |-> DirV, type |-> "Video"]>>,
   <<[path |-> DirB, type |-> "Audio"]>>,
   <<[path |-> DirM, type |-> "Audio"], [path |-> DirV, type |-> "Video"]>>,
   <<[path |-> DirM, type |-> "Video"], [path |-> DirV, type |-> "Audio"]>>}

StaleVideo == [name |-> <<>>, duration |-> 4, lastWriteTime |-> 0]

SweepInit ==
  /\ now = Time(ClockFirstDay, 0)
  /\ settings \in [updatePeriod : {"Never"}, updateStartTime : {0},
                   manualScanRequested : {FALSE},
                   lastScan : {NotATime}, lastUpdate : {NotATime}]
  /\ EngineInit
  /\ mediaDirectories \in SweepRoots
  /\ audioExtensions \in {{}, {ExtX}, {ExtX, ExtY}}
  /\ videoExtensions \in {{}, {ExtY}}
  /\ fs \in SweepFss
  /\ tracks \in {[p \in D |-> StaleTrack] : D \in SUBSET SweepFiles}
  /\ videos \in {[p \in D |-> StaleVideo] : D \in SUBSET {FileMB, FileVC}}
  /\ artists = <<>>
  /\ releases = <<>>
  /\ genres = <<>>
  /\ LibInit

SweepAudio ==
  /\ checkAudioFiles
  /\ UNCHANGED <<now, settings, ctl, running, timer, queue, pc,
                 rootDirectories, itPath, configVars, fs, videos, artists,
                 releases, genres, lastJob, lastFile, pass>>

SweepVideo ==
  /\ checkVideoFiles
  /\ UNCHANGED <<now, settings, ctl, running, timer, queue, pc,
                 rootDirectories, itPath, configVars, fs, tracks, artists,
                 releases, genres, lastJob, lastFile, pass>>

SweepNext ==
  \/ SweepAudio /\ UNCHANGED libVars
  \/ SweepVideo /\ UNCHANGED libVars

SweepSpec == SweepInit /\ [][SweepNext]_vars

(***************************************************************************)
(* AudioSpec: processAudioFile on one path, called again and again with    *)
(* any last write time, any cover situation, any bag of AudioBags and any  *)
(* fault, within passes of at most MaxChanges counted changes.             *)
(***************************************************************************)
\* bags of a track with and without an embedded cover, and bags of a file
\* that is no track
AudioBags ==
  {[BaseBag EXCEPT !.hasCover = c] : c \in {<<>>, <<TRUE>>, <<FALSE>>}}
  \cup {[BaseBag EXCEPT !.audioStreams = s] : s \in {<<>>, <<0>>}}
  \cup {[BaseBag EXCEPT !.duration = d] :
          d \in {<<>>, <<0>>, <<1>>, <<0 - 4>>}}

AudioEnvs ==
  [fault : {"none", "mtime", "parse", "commit"}, lwt : 0..MaxMtime,
   externalCovers : BOOLEAN, items : AudioBags]

AudioInit ==
  /\ now = Time(ClockFirstDay, 0)
  /\ settings \in [updatePeriod : {"Never"}, updateStartTime : {0},
                   manualScanRequested : {FALSE},
                   lastScan : {NotATime}, lastUpdate : {NotATime}]
  /\ EngineInit
  /\ mediaDirectories = <<[path |-> DirM, type |-> "Audio"]>>
  /\ audioExtensions = {ExtX}
  /\ videoExtensions = {ExtY}
  /\ fs = SpecFs
  /\ tracks = <<>>
  /\ videos = <<>>
  /\ artists = <<>>
  /\ releases = <<>>
  /\ genres = <<>>
  /\ LibInit

AudioFile ==
  /\ nbChanges(stats) < MaxChanges
  /\ \E env \in AudioEnvs : processAudioFile(FileMA, env)
  /\ UNCHANGED <<now, settings, ctl, running, timer, queue, pc,
                 rootDirectories, itPath, configVars, fs, lastJob, lastSweep,
                 pass>>

\* line 219: the Stats of a new pass
NewStats ==
  /\ stats # ZeroStats
  /\ stats' = ZeroStats
  /\ UNCHANGED <<now, settings, ctl, running, timer, queue, pc,
                 rootDirectories, itPath, configVars, fs, catalogVars,
                 historyVars>>

AudioNext ==
  \/ AudioFile /\ UNCHANGED libVars
  \/ NewStats /\ UNCHANGED libVars

AudioSpec == AudioInit /\ [][AudioNext]_vars

(***************************************************************************)
(* VideoSpec: processVideoFile on one path, called again and again with    *)
(* any last write time, any bag of VideoBags and any fault, within passes  *)
(* of at most MaxChanges counted changes.                                  *)
(***************************************************************************)
VideoBags ==
  {[VideoBag EXCEPT !.videoStreams = v] : v \in {<<>>, <<0>>, <<1>>}}
  \cup {[VideoBag EXCEPT !.duration = d] :
          d \in {<<>>, <<0>>, <<1>>, <<0 - 4>>}}

VideoEnvs ==
  [fault : {"none", "mtime", "parse", "commit"}, lwt : 0..MaxMtime,
   externalCovers : {FALSE}, items : VideoBags]

VideoInit ==
  /\ now = Time(ClockFirstDay, 0)
  /\ settings \in [updatePeriod : {"Never"}, updateStartTime : {0},
                   manualScanRequested : {FALSE},
                   lastScan : {NotATime}, lastUpdate : {NotATime}]
  /\ EngineInit
  /\ mediaDirectories = <<[path |-> DirV, type |-> "Video"]>>
  /\ audioExtensions = {ExtX}
  /\ videoExtensions = {ExtY}
  /\ fs = SpecFs
  /\ tracks = <<>>
  /\ videos = <<>>
  /\ artists = <<>>
  /\ releases = <<>>
  /\ genres = <<>>
  /\ LibInit

VideoFile ==
  /\ nbChanges(stats) < MaxChanges
  /\ \E env \in VideoEnvs : processVideoFile(FileVC, env)
  /\ UNCHANGED <<now, settings, ctl, running, timer, queue, pc,
                 rootDirectories, itPath, configVars, fs, lastJob, lastSweep,
                 pass>>

VideoNext ==
  \/ VideoFile /\ UNCHANGED libVars
  \/ NewStats /\ UNCHANGED libVars

VideoSpec == VideoInit /\ [][VideoNext]_vars

(***************************************************************************)
(* EntitySpec: processAudioFile on one path whose tags change from call to *)
(* call: any artist name with or without an artist id, any album name with *)
(* or without an album id, any list of genres.  The file has no embedded   *)
(* cover entry and a cover lies in its directory, so that it is parsed     *)
(* every time; the commit may throw.  A pass counts at most MaxChanges     *)
(* changes.                                                                *)
(***************************************************************************)
TagBag == [BaseBag EXCEPT !.hasCover = <<>>]

EntityBags ==
  {[TagBag EXCEPT !.artist = a, !.artistMBID = m] :
     a \in {<<>>, <<"A">>, <<"B">>}, m \in {<<>>, <<"i">>}}
  \cup {[TagBag EXCEPT !.album = a, !.albumMBID = m] :
          a \in {<<>>, <<"A">>, <<"B">>}, m \in {<<>>, <<"i">>}}
  \cup {[TagBag EXCEPT !.genres = g] :
          g \in {<<>>, << <<>> >>, << <<"g">> >>, << <<"g", "h">> >>,
                 << <<"h", "h">> >>}}

EntityEnvs ==
  [fault : {"none", "commit"}, lwt : {0}, externalCovers : {TRUE},
   items : EntityBags]

EntityFile ==
  /\ nbChanges(stats) < MaxChanges
  /\ Len(artists) + Len(releases) + Len(genres) < MaxRows
  /\ \E env \in EntityEnvs : processAudioFile(FileMA, env)
  /\ UNCHANGED <<now, settings, ctl, running, timer, queue, pc,
                 rootDirectories, itPath, configVars, fs, lastJob, lastSweep,
                 pass>>

EntityNext ==
  \/ EntityFile /\ UNCHANGED libVars
  \/ NewStats /\ UNCHANGED libVars

EntitySpec == AudioInit /\ [][EntityNext]_vars

(***************************************************************************)
(* WalkSpec: passes over a library whose files are rewritten between and   *)
(* during the passes, a rewritten file being one on which a call of the    *)
(* change applier may throw.  Every pass is a manual scan.                 *)
(***************************************************************************)
WalkFiles == {FileMA, FileVC}

Faults == {"none", "mtime", "parse", "commit"}

WalkInit ==
  /\ now = Time(ClockFirstDay, 0)
  /\ settings \in [updatePeriod : {"Never"}, updateStartTime : {0},
                   manualScanRequested : {TRUE},
                   lastScan : {NotATime}, lastUpdate : {NotATime}]
  /\ EngineInit
  /\ mediaDirectories \in
       {<<[path |-> DirM, type |-> "Audio"], [path |-> DirV, type |-> "Video"]>>,
        <<[path |-> DirV, type |-> "Video"], [path |-> DirM, type |-> "Audio"]>>}
  /\ audioExtensions = {ExtX}
  /\ videoExtensions = {ExtY}
  /\ fs = SpecFs
  /\ tracks = <<>>
  /\ videos = <<>>
  /\ artists = <<>>
  /\ releases = <<>>
  /\ genres = <<>>
  /\ LibInit

\* a file of the library is written again
Touch ==
  /\ \E file \in WalkFiles, fault \in Faults \cup {NoMedia} :
       /\ fs[file].kind = "regular"
       /\ fs[file].mtime < MaxMtime
       /\ fs' = [fs EXCEPT ![file].mtime = @ + 1, ![file].fault = fault]
  /\ UNCHANGED <<now, settings, ctl, running, timer, queue, walkVars,
                 configVars, catalogVars, historyVars>>

\* the track of the library is deleted
Remove ==
  /\ fs[FileMA].kind = "regular"
  /\ fs' = [fs EXCEPT ![FileMA] = Missing]
  /\ UNCHANGED <<now, settings, ctl, running, timer, queue, walkVars,
                 configVars, catalogVars, historyVars>>

WalkNext ==
  \/ Start /\ UNCHANGED libVars
  \/ TimerExpires /\ UNCHANGED libVars
  \/ process_enter /\ UNCHANGED libVars
  \/ process_checkAudioFiles /\ UNCHANGED libVars
  \/ process_checkVideoFiles /\ UNCHANGED libVars
  \/ process_snapshot /\ UNCHANGED libVars
  \/ processDirectory_enter /\ UNCHANGED libVars
  \/ processDirectory_next /\ UNCHANGED libVars
  \/ process_saveScan /\ UNCHANGED libVars
  \/ process_clearManual /\ UNCHANGED libVars
  \/ process_readRunning /\ UNCHANGED libVars
  \/ process_nextJob /\ UNCHANGED libVars
  \/ RequestManualScan /\ UNCHANGED libVars
  \/ Touch /\ UNCHANGED libVars
  \/ Remove /\ UNCHANGED libVars

WalkSpec == WalkInit /\ [][WalkNext]_vars

(***************************************************************************)
(* RootSpec: passes over configurations whose root directories are not     *)
(* all there: a root that does not exist, a root that is a regular file,   *)
(* and a root that is added to the configuration while a pass is under     *)
(* way.  Every pass is a manual scan.                                      *)
(***************************************************************************)
AudioRoot(p) == [path |-> p, type |-> "Audio"]
VideoRoot(p) == [path |-> p, type |-> "Video"]

RootInit ==
  /\ now = Time(ClockFirstDay, 0)
  /\ settings \in [updatePeriod : {"Never"}, updateStartTime : {0},
                   manualScanRequested : {TRUE},
                   lastScan : {NotATime}, lastUpdate : {NotATime}]
  /\ EngineInit
  /\ mediaDirectories \in {<<AudioRoot(DirB), AudioRoot(DirM)>>,
                           <<AudioRoot(FileMA), VideoRoot(DirV)>>,
                           <<AudioRoot(DirM)>>}
  /\ audioExtensions = {ExtX}
  /\ videoExtensions = {ExtY}
  /\ fs = SpecFs
  /\ tracks = <<>>
  /\ videos = <<>>
  /\ artists = <<>>
  /\ releases = <<>>
  /\ genres = <<>>
  /\ LibInit

\* an external writer of the configuration adds the video root directory
AddRoot ==
  /\ VideoRoot(DirV) \notin Range(mediaDirectories)
  /\ mediaDirectories' = Append(mediaDirectories, VideoRoot(DirV))
  /\ UNCHANGED <<now, settings, ctl, running, timer, queue, walkVars,
                 audioExtensions, videoExtensions, fs, catalogVars,
                 historyVars>>

RootNext ==
  \/ Start /\ UNCHANGED libVars
  \/ TimerExpires /\ UNCHANGED libVars
  \/ process_enter /\ UNCHANGED libVars
  \/ process_checkAudioFiles /\ UNCHANGED libVars
  \/ process_checkVideoFiles /\ UNCHANGED libVars
  \/ process_snapshot /\ UNCHANGED libVars
  \/ processDirectory_enter /\ UNCHANGED libVars
  \/ processDirectory_next /\ UNCHANGED libVars
  \/ process_saveScan /\ UNCHANGED libVars
  \/ process_clearManual /\ UNCHANGED libVars
  \/ process_readRunning /\ UNCHANGED libVars
  \/ process_nextJob /\ UNCHANGED libVars
  \/ RequestManualScan /\ UNCHANGED libVars
  \/ AddRoot /\ UNCHANGED libVars

RootSpec == RootInit /\ [][RootNext]_vars

(***************************************************************************)
(* FailSpec: passes in which an access to the database throws, or in which *)
(* a root directory is removed while it is walked.  process() and          *)
(* processDirectory() have no try block (lines 214-262 and 549-586): an    *)
(* exception thrown outside processAudioFile() and processVideoFile()      *)
(* leaves process(), and the io-service thread is then at "dbException" or *)
(* "fsException", from where no step of process() follows.                 *)
(***************************************************************************)
\* a root directory is removed with everything in it
Vanish ==
  /\ \E d \in {DirM, DirV} :
       /\ is_directory(d)
       /\ fs' = [p \in DOMAIN fs |->
                  IF p = d \/ startsWith(p, d \o <<"/">>) THEN Missing
                  ELSE fs[p]]
  /\ UNCHANGED <<now, settings, ctl, running, timer, queue, walkVars,
                 configVars, catalogVars, historyVars>>

\* lines 634, 674, 227 and 241-243: the Transaction or the first query of a
\* sweep, of the snapshot or of the bookkeeping throws
process_dbException ==
  /\ pc \in {"checkAudio", "checkVideo", "snapshot", "saveScan"}
  /\ pc' = "dbException"
  /\ UNCHANGED <<now, settings, ctl, running, timer, queue, stats,
                 rootDirectories, itPath, configVars, fs, catalogVars,
                 historyVars>>

\* lines 561 and 584: the iterator throws filesystem_error on a directory
\* that is no longer there; whether it throws or comes to its end (the turn
\* of the loop in processDirectory_next) is up to the file system
processDirectory_fsException ==
  /\ pc = "iterate" /\ running
  /\ ~is_directory(Head(rootDirectories).path)
  /\ pc' = "fsException"
  /\ UNCHANGED <<now, settings, ctl, running, timer, queue, stats,
                 rootDirectories, itPath, configVars, fs, catalogVars,
                 historyVars>>

FailNext ==
  \/ Start /\ UNCHANGED libVars
  \/ TimerExpires /\ UNCHANGED libVars
  \/ process_enter /\ UNCHANGED libVars
  \/ process_checkAudioFiles /\ UNCHANGED libVars
  \/ process_checkVideoFiles /\ UNCHANGED libVars
  \/ process_snapshot /\ UNCHANGED libVars
  \/ processDirectory_enter /\ UNCHANGED libVars
  \/ processDirectory_next /\ UNCHANGED libVars
  \/ process_saveScan /\ UNCHANGED libVars
  \/ process_clearManual /\ UNCHANGED libVars
  \/ process_readRunning /\ UNCHANGED libVars
  \/ process_nextJob /\ UNCHANGED libVars
  \/ RequestManualScan /\ UNCHANGED libVars
  \/ Vanish /\ UNCHANGED libVars
  \/ process_dbException /\ UNCHANGED libVars
  \/ processDirectory_fsException /\ UNCHANGED libVars

FailSpec == WalkInit /\ [][FailNext]_vars

(***************************************************************************)
(* RestartSpec: passes over the library of WalkSpec, its files left alone, *)
(* while stop() and start() are called again and again.  What              *)
(* _ioService.stop() waits for is not known: start() may be called, by the *)
(* thread whose stop() has returned or by another one, while the           *)
(* io-service thread is still inside the pass that stop() was called on.   *)
(***************************************************************************)
\* Updater::start() after stop()
StartAgain ==
  /\ ctl = "stopping"
  /\ Len(queue) < MaxQueue
  /\ running' = TRUE
  /\ processNextJob
  /\ ctl' = "started"
  /\ UNCHANGED <<now, settings, walkVars, configVars, fs, catalogVars,
                 lastFile, lastSweep, pass>>

RestartNext ==
  \/ Start /\ UNCHANGED libVars
  \/ Stop /\ UNCHANGED libVars
  \/ StartAgain /\ UNCHANGED libVars
  \/ TimerExpires /\ UNCHANGED libVars
  \/ process_enter /\ UNCHANGED libVars
  \/ process_checkAudioFiles /\ UNCHANGED libVars
  \/ process_checkVideoFiles /\ UNCHANGED libVars
  \/ process_snapshot /\ UNCHANGED libVars
  \/ processDirectory_enter /\ UNCHANGED libVars
  \/ processDirectory_next /\ UNCHANGED libVars
  \/ process_saveScan /\ UNCHANGED libVars
  \/ process_clearManual /\ UNCHANGED libVars
  \/ process_readRunning /\ UNCHANGED libVars
  \/ process_nextJob /\ UNCHANGED libVars

RestartSpec == WalkInit /\ [][RestartNext]_vars

(***************************************************************************)
(* The updater at rest, while one of the libraries is exercised.           *)
(***************************************************************************)
UpdaterIdle ==
  /\ now = Time(ClockFirstDay, 0)
  /\ settings \in [updatePeriod : {"Never"}, updateStartTime : {0},
                   manualScanRequested : {FALSE},
                   lastScan : {NotATime}, lastUpdate : {NotATime}]
  /\ EngineInit
  /\ LibraryInit

(***************************************************************************)
(* CheckerSpec: every sequence of calls of the transaction checker by two  *)
(* threads about two sessions, with stacks of at most MaxDepth entries.    *)
(***************************************************************************)
CheckerNext ==
  \/ \E thread \in Threads, type \in TransactionTypes, session \in Sessions :
       pushTransaction(thread, type, session)
  \/ \E thread \in Threads, type \in TransactionTypes, session \in Sessions :
       popTransaction(thread, type, session)
  \/ \E thread \in Threads, session \in Sessions :
       checkWriteTransaction(thread, session)
  \/ \E thread \in Threads, session \in Sessions :
       checkReadTransaction(thread, session)

CheckerInit ==
  /\ UpdaterIdle
  /\ LibInit

CheckerSpec == CheckerInit /\ [][CheckerNext]_vars

(***************************************************************************)
(* MigrationSpec: doDbMigration() over every stored version from           *)
(* MinStored to MaxStored.  The function runs in one thread from its       *)
(* first statement to its last, hence the fairness of its steps.           *)
(***************************************************************************)
MigrationInit ==
  /\ UpdaterIdle
  /\ transactionStack = [thread \in Threads |-> <<>>]
  /\ lastCheck = NoCheck
  /\ versionInfo \in MinStored..MaxStored
  /\ migration = NoMigration
  /\ mLookupTable = <<>>
  /\ added = {}
  /\ lastHas = NoHas

MigrationNext ==
  \/ doDbMigration_enter
  \/ doDbMigration_step
  \/ doDbMigration_return

MigrationSpec ==
  MigrationInit /\ [][MigrationNext]_vars /\ WF_vars(MigrationNext)

(***************************************************************************)
(* CacherSpec: every sequence of calls of the RequestCacher over two keys. *)
(***************************************************************************)
Keys == {<<1>>, <<1, 2>>}
Values == {<<>>, <<7>>}

CacherNext ==
  \/ \E aClusters \in Keys : hasCache(aClusters)
  \/ \E aClusters \in Keys, aValues \in Values : addToCache(aClusters, aValues)
  \/ invalidateCache

CacherInit ==
  /\ UpdaterIdle
  /\ LibInit

CacherSpec == CacherInit /\ [][CacherNext]_vars

(***************************************************************************)
(* Properties of the scheduler.  lastJob is what the latest call of        *)
(* processNextJob() read and what it asked of the timer.                   *)
(***************************************************************************)
Computed == lastJob.kind # "notyet"

Today == lastJob.now.date

BeforeStart == lastJob.now.tod < lastJob.startTime

\* C2: whenever processNextJob() runs with the manual scan requested, it
\* schedules the scan with a zero delay (scheduleScan(seconds(0)), which
\* expires at the time of the call), under every update period, Never
\* included, and every start time.
C2_ManualFiresNow ==
  (Computed /\ lastJob.manual)
    => (lastJob.kind = "duration" /\ lastJob.at = lastJob.now)

\* a pass that ended with the engine running found the manual scan requested
\* under the period Never
C2_Witness ==
  /\ lastJob.inPass /\ lastJob.manual /\ lastJob.period = "Never"
  /\ lastJob.kind = "duration" /\ timer.armed /\ timer.at = lastJob.now

\* C3: under Weekly with no manual scan requested, the scan is scheduled
\* today at the start time when today is a Monday and the time of day is
\* before the start time, and otherwise at the start time of the first
\* Monday strictly after today: seven days later from a Monday, six days
\* later from a Tuesday.
C3_Weekly ==
  (Computed /\ lastJob.period = "Weekly" /\ ~lastJob.manual)
    => /\ lastJob.kind = "ptime"
       /\ lastJob.at.tod = lastJob.startTime
       /\ IF day_of_week(Today) = 1 /\ BeforeStart
          THEN lastJob.at.date = Today
          ELSE /\ lastJob.at.date > Today
               /\ day_of_week(lastJob.at.date) = 1
               /\ \A d \in (Today + 1)..(lastJob.at.date - 1) :
                    day_of_week(d) # 1
               /\ day_of_week(Today) = 1 => lastJob.at.date = Today + 7
               /\ day_of_week(Today) = 2 => lastJob.at.date = Today + 6

\* start() on a Monday at or after the start time
C3_Witness ==
  /\ Computed /\ lastJob.period = "Weekly" /\ ~lastJob.manual
  /\ day_of_week(Today) = 1 /\ ~BeforeStart
  /\ lastJob.at.date = Today + 7 /\ timer.armed /\ timer.at = lastJob.at

\* C4: under Daily with no manual scan requested, the scan is scheduled
\* today at the start time when the time of day is strictly before the start
\* time, and tomorrow at the start time otherwise, the start time itself
\* included.
C4_Daily ==
  (Computed /\ lastJob.period = "Daily" /\ ~lastJob.manual)
    => /\ lastJob.kind = "ptime"
       /\ lastJob.at.tod = lastJob.startTime
       /\ lastJob.at.date = IF BeforeStart THEN Today ELSE Today + 1

\* start() exactly at the start time
C4_Witness ==
  /\ Computed /\ lastJob.period = "Daily" /\ ~lastJob.manual
  /\ lastJob.now.tod = lastJob.startTime
  /\ lastJob.at.date = Today + 1 /\ timer.armed /\ timer.at = lastJob.at

\* C5: under Monthly with no manual scan requested, the scan is scheduled
\* today at the start time when today is the 1st and the time of day is
\* before the start time, and otherwise at the start time of the 1st of the
\* following month.
C5_Monthly ==
  (Computed /\ lastJob.period = "Monthly" /\ ~lastJob.manual)
    => /\ lastJob.kind = "ptime"
       /\ lastJob.at.tod = lastJob.startTime
       /\ IF day(Today) = 1 /\ BeforeStart
          THEN lastJob.at.date = Today
          ELSE /\ lastJob.at.date > Today
               /\ day(lastJob.at.date) = 1
               /\ \A d \in (Today + 1)..(lastJob.at.date - 1) : day(d) # 1

\* start() on a 1st at or after the start time: the 1st of the next month
C5_Witness ==
  /\ Computed /\ lastJob.period = "Monthly" /\ ~lastJob.manual
  /\ day(Today) = 1 /\ ~BeforeStart
  /\ lastJob.at.date > Today + 27 /\ timer.armed /\ timer.at = lastJob.at

\* C6: under Never, or a period the switch of processNextJob() does not
\* know, with no manual scan requested, processNextJob() asks nothing of the
\* timer: no wait is pending and no handler is queued afterwards.
C6_NeverSchedulesNothing ==
  (Computed /\ lastJob.period \in {"Never", "Unknown"} /\ ~lastJob.manual)
    => (lastJob.kind = "none" /\ ~timer.armed /\ queue = <<>>)

\* a pass that ended with the engine running, under a period of no date
C6_Witness ==
  /\ lastJob.inPass /\ ~lastJob.manual /\ lastJob.period = "Unknown"
  /\ lastJob.kind = "none" /\ ctl = "started" /\ pc = "idle"

(***************************************************************************)
(* Properties of the engine.  pass is the course of the latest pass:       *)
(* whether stop() was called while it ran (stopped), whether that was      *)
(* before the read of _running at line 249 (stoppedEarly), and what the    *)
(* bookkeeping found and did.                                              *)
(***************************************************************************)

\* C7: passes do not overlap.  One thread runs the handlers, and while it is
\* inside process() no wait is pending on the timer and no handler that
\* would run a pass is queued: the timer is armed again only by the
\* processNextJob() of line 260, after the bookkeeping.
C7_NoOverlap ==
  pc # "idle" =>
    (~timer.armed /\ \A i \in 1..Len(queue) : queue[i] # "ok")

\* a second pass is at its bookkeeping, the timer having been armed by the
\* pass before it
C7_Witness ==
  /\ lastJob.inPass /\ lastJob.kind # "none"
  /\ pc = "saveScan" /\ running /\ ~timer.armed

\* C1: when a pass is over, lastScan has been set and a requested manual
\* scan has been marked done if and only if stop() did not abort the pass:
\* a pass stop() was called on before the bookkeeping leaves both as they
\* were, a pass stop() was not called on sets lastScan and clears the
\* request, and in no pass is one of the two done without the other.
C1_SavedIffNotAborted ==
  pc = "readRunning" =>
    /\ pass.stoppedEarly => (~pass.scanSaved /\ ~pass.manualCleared)
    /\ ~pass.stopped =>
         (pass.scanSaved /\ (pass.manualPending => pass.manualCleared))
    /\ pass.manualPending => (pass.scanSaved <=> pass.manualCleared)

\* C8: once stop() has been called no pass begins and processNextJob() is
\* not called again.
C8_NothingAfterStop ==
  [][(ctl \in {"stopping", "stopped"})
       => ((pc = "idle" => pc' = "idle") /\ lastJob' = lastJob)]_vars

(***************************************************************************)
(* Properties of the sweeper.  lastSweep is the latest sweep: the rows it  *)
(* looked at, the rows it removed, the roots and extensions it was given   *)
(* and the Stats before and after.                                         *)
(***************************************************************************)
\* C9: a sweep keeps a row if and only if its file exists, is a regular
\* file, has a path prefixed by a configured root of the row's kind and an
\* extension of the kind's configured set; nbRemoved grows by one for every
\* row removed.
C9_KeptIffValid ==
  lastSweep.kind # "none" =>
    /\ \A p \in lastSweep.rows :
         (p \notin lastSweep.removed)
           <=> /\ exists(p) /\ is_regular(p)
               /\ \E rootDir \in lastSweep.rootDirs : startsWith(p, rootDir)
               /\ isFileSupported(p, lastSweep.extensions)
    /\ lastSweep.after =
         [lastSweep.before EXCEPT
            !.nbRemoved = @ + Cardinality(lastSweep.removed)]

(***************************************************************************)
(* Properties of the change applier.  lastFile is the latest call of       *)
(* processAudioFile() or processVideoFile(): what the file held, the       *)
(* catalog and the Stats before, whether the parser was called, and the    *)
(* Stats after.                                                            *)
(***************************************************************************)
SameAsLastUpdate ==
  LET before == lastFile.before.tracks
      f == lastFile.file
  IN  /\ f \in DOMAIN before
      /\ before[f].lastWriteTime = lastFile.env.lwt
      /\ \/ before[f].coverType = "Embedded"
         \/ before[f].coverType = "None" /\ ~lastFile.env.externalCovers
         \/ before[f].coverType = "ExternalFile" /\ lastFile.env.externalCovers

\* C10: processAudioFile() on a file whose last write time can be read
\* returns without calling the parser, without a write to the catalog and
\* without a change of the Stats exactly when the path has a Track row whose
\* lastWriteTime is the file's and whose cover type is Embedded, or None
\* with no external cover found, or ExternalFile with an external cover
\* found; in every other case the parser is called.
C10_SkipExactly ==
  (lastFile.kind = "Audio" /\ lastFile.env.fault # "mtime")
    => /\ SameAsLastUpdate
            => /\ ~lastFile.extracted
               /\ Catalog = lastFile.before
               /\ lastFile.statsAfter = lastFile.statsBefore
       /\ ~SameAsLastUpdate => lastFile.extracted

\* the file is seen again with its last write time and its embedded cover,
\* while an external cover lies in its directory
C10_Witness ==
  /\ lastFile.kind = "Audio" /\ lastFile.env.fault = "none"
  /\ lastFile.file \in DOMAIN lastFile.before.tracks
  /\ lastFile.before.tracks[lastFile.file].coverType = "Embedded"
  /\ lastFile.before.tracks[lastFile.file].lastWriteTime = lastFile.env.lwt
  /\ lastFile.env.externalCovers
  /\ lastFile.outcome = "skip" /\ Catalog = lastFile.before

(***************************************************************************)
(* Properties of the walk.  A turn of the loop of processDirectory() is at *)
(* a file when the file is the entry the iterator stands on and the loop   *)
(* hands it to the change applier of the root's kind.                      *)
(***************************************************************************)
AtAudioFile(f) ==
  /\ pc = "iterate" /\ itPath # <<>> /\ running /\ Head(itPath) = f
  /\ is_regular(f) /\ Head(rootDirectories).type = "Audio"
  /\ isFileSupported(f, audioExtensions)

AtVideoFile(f) ==
  /\ pc = "iterate" /\ itPath # <<>> /\ running /\ Head(itPath) = f
  /\ is_regular(f) /\ Head(rootDirectories).type = "Video"
  /\ isFileSupported(f, videoExtensions)

WalkGoesOn == pc' = "iterate" /\ itPath' = Tail(itPath)

\* C11: when the parser throws on a file, audio or video, the catalog is
\* left as it was (the row of the path, if any, untouched and no row
\* created), the loop goes on to the next entry, and the file is still not
\* the same as at the last update, so that the next pass calls the parser
\* on it again.
C11_ExtractionErrorCaught ==
  [][\A f \in Files :
       /\ (AtAudioFile(f) /\ fs[f].fault = "parse"
             /\ ~audioSkip(f, EnvOf(f)) /\ processDirectory_next)
            => /\ catalogVars' = catalogVars
               /\ WalkGoesOn
               /\ lastFile'.extracted /\ lastFile'.outcome = "error"
               /\ (~audioSkip(f, EnvOf(f)))'
       /\ (AtVideoFile(f) /\ fs[f].fault = "parse"
             /\ ~videoSkip(f, EnvOf(f)) /\ processDirectory_next)
            => /\ catalogVars' = catalogVars
               /\ WalkGoesOn
               /\ lastFile'.extracted /\ lastFile'.outcome = "error"
               /\ (~videoSkip(f, EnvOf(f)))']_vars

\* in a later pass the parser has thrown on a track that has a row, and
\* another root is still to be walked
C11_Witness ==
  /\ lastJob.inPass /\ pc = "iterate" /\ Len(rootDirectories) = 2
  /\ lastFile.kind = "Audio" /\ lastFile.env.fault = "parse"
  /\ lastFile.extracted /\ lastFile.outcome = "error"
  /\ lastFile.file \in DOMAIN tracks /\ Catalog = lastFile.before
  /\ tracks[lastFile.file].lastWriteTime # fs[lastFile.file].mtime

\* C12: processing of an audio file is atomic.  Wherever the exception is
\* thrown (reading the last write time, parsing, or at the commit, after the
\* entities were resolved and the row was written inside the transaction),
\* the catalog after the call is the catalog before it, and the loop goes on
\* to the next entry.
C12_FileAtomic ==
  [][\A f \in Files :
       (AtAudioFile(f) /\ audioFileResult(f, EnvOf(f)).outcome = "error"
          /\ processDirectory_next)
         => (catalogVars' = catalogVars /\ WalkGoesOn)]_vars

\* the commit of a new track has thrown after its artist was created and
\* the row counted
C12_Witness ==
  /\ pc = "iterate" /\ lastFile.kind = "Audio"
  /\ lastFile.env.fault = "commit" /\ lastFile.outcome = "error"
  /\ lastFile.statsAfter.nbAdded = lastFile.statsBefore.nbAdded + 1
  /\ Catalog = lastFile.before /\ artists = <<>>

(***************************************************************************)
(* Further properties of the change appliers.                              *)
(***************************************************************************)
Parsed == lastFile.extracted /\ lastFile.env.fault # "parse"

RowsWithout(table, f) == [p \in DOMAIN table \ {f} |-> table[p]]

\* C13: when the parser finds no audio stream in an audio file, or a
\* duration <= 0, the Track row of the path, if there is one, is deleted and
\* nbRemoved grows by exactly one (by none if there was no row), no Track
\* row is created or modified, and the artists, releases and genres are
\* left as they were.
C13_NotATrack ==
  LET items == lastFile.env.items
      f == lastFile.file
      before == lastFile.before
  IN  (/\ lastFile.kind = "Audio" /\ Parsed
       /\ \/ ~Has(items.audioStreams)
          \/ Val(items.audioStreams) = 0
          \/ Has(items.duration) /\ Val(items.duration) <= 0)
        => /\ tracks = RowsWithout(before.tracks, f)
           /\ lastFile.statsAfter =
                [lastFile.statsBefore EXCEPT
                   !.nbRemoved = @ + IF f \in DOMAIN before.tracks
                                     THEN 1 ELSE 0]
           /\ artists = before.artists
           /\ releases = before.releases
           /\ genres = before.genres

\* a track whose file now has a negative duration loses its row
C13_Witness ==
  /\ lastFile.kind = "Audio" /\ Parsed
  /\ lastFile.env.items.duration = <<0 - 4>>
  /\ lastFile.file \in DOMAIN lastFile.before.tracks
  /\ lastFile.file \notin DOMAIN tracks
  /\ lastFile.statsAfter.nbRemoved = lastFile.statsBefore.nbRemoved + 1

\* C14: when the parser finds no video stream in a video file, or a
\* duration that is zero or negative, the Video row of the path, if there
\* is one, is deleted and counted as one removal, and no Video row is
\* created or updated.
C14_NotAVideo ==
  LET items == lastFile.env.items
      f == lastFile.file
      before == lastFile.before
  IN  (/\ lastFile.kind = "Video" /\ Parsed
       /\ \/ ~Has(items.videoStreams)
          \/ Val(items.videoStreams) = 0
          \/ Has(items.duration) /\ Val(items.duration) <= 0)
        => /\ videos = RowsWithout(before.videos, f)
           /\ lastFile.statsAfter =
                [lastFile.statsBefore EXCEPT
                   !.nbRemoved = @ + IF f \in DOMAIN before.videos
                                     THEN 1 ELSE 0]

(***************************************************************************)
(* Properties of the entity resolvers, read off the latest call of         *)
(* processAudioFile() that wrote a row: the artist and the release of the  *)
(* row are what getArtist() and getRelease() returned for the tags of the  *)
(* bag, over the tables as they were before the call.                      *)
(***************************************************************************)
Written == lastFile.kind = "Audio" /\ lastFile.outcome \in {"added", "modified"}

Tag(x) == IF Has(x) THEN Val(x) ELSE ""

WithId(table, id) == {i \in 1..Len(table) : table[i].mbid = id}

IdLess(table, name) ==
  {i \in 1..Len(table) : table[i].name = name /\ table[i].mbid = ""}

EntityRow(name, id) == [name |-> name, mbid |-> id, none |-> FALSE]

\* with an id: the entity of the id, left as it is, or else one new entity
\* of the id and the name; the entity the row had before, if it has the id
ResolvedById(before, after, ref, was, name, id) ==
  /\ IF WithId(before, id) # {}
     THEN after = before /\ ref \in WithId(before, id)
     ELSE after = Append(before, EntityRow(name, id)) /\ ref = Len(after)
  /\ (was \in WithId(before, id)) => (ref = was /\ after[ref] = before[was])

\* C15: an artist or a release resolved with a global id is the entity of
\* that id if there is one, whatever the name and with its stored name
\* unchanged, and otherwise one new entity of that id and name; a second
\* resolution with the same id gives the same entity even under another
\* name.
C15_ResolveById ==
  Written =>
    LET f == lastFile.file
        items == lastFile.env.items
        before == lastFile.before
        wasArtist == IF f \in DOMAIN before.tracks
                     THEN before.tracks[f].artist ELSE 0
        wasRelease == IF f \in DOMAIN before.tracks
                      THEN before.tracks[f].release ELSE 0
    IN  /\ Tag(items.artistMBID) # ""
             => ResolvedById(before.artists, artists, tracks[f].artist,
                             wasArtist, Tag(items.artist),
                             Tag(items.artistMBID))
        /\ Tag(items.albumMBID) # ""
             => ResolvedById(before.releases, releases, tracks[f].release,
                             wasRelease, Tag(items.album),
                             Tag(items.albumMBID))

\* the album of the file is tagged again under another name and the same
\* id: the row keeps its release, and the release keeps its name
C15_Witness ==
  /\ Written /\ lastFile.file \in DOMAIN lastFile.before.tracks
  /\ Tag(lastFile.env.items.albumMBID) = "i"
  /\ tracks[lastFile.file].release
       = lastFile.before.tracks[lastFile.file].release
  /\ releases[tracks[lastFile.file].release].mbid = "i"
  /\ releases[tracks[lastFile.file].release].name
       # Tag(lastFile.env.items.album)

\* without an id and with a name: an entity of exactly that name and with
\* no id, or else one new entity of that name with no id
ResolvedByName(before, after, ref, was, name) ==
  /\ IF IdLess(before, name) # {}
     THEN after = before /\ ref \in IdLess(before, name)
     ELSE after = Append(before, EntityRow(name, "")) /\ ref = Len(after)
  /\ after[ref].mbid = ""
  /\ (was \in IdLess(before, name)) => ref = was

\* C16: an artist or a release resolved with a name and no global id is an
\* entity of exactly that name with no global id if there is one, never an
\* entity with a global id, and otherwise a new entity of that name with no
\* id; a second resolution of the name gives the same entity, and a
\* resolution of the name with a global id not yet in the catalog gives a
\* new entity, not the one without id.
C16_ResolveByName ==
  Written =>
    LET f == lastFile.file
        items == lastFile.env.items
        before == lastFile.before
        wasArtist == IF f \in DOMAIN before.tracks
                     THEN before.tracks[f].artist ELSE 0
        wasRelease == IF f \in DOMAIN before.tracks
                      THEN before.tracks[f].release ELSE 0
    IN  /\ (Tag(items.artistMBID) = "" /\ Tag(items.artist) # "")
             => ResolvedByName(before.artists, artists, tracks[f].artist,
                               wasArtist, Tag(items.artist))
        /\ (Tag(items.albumMBID) = "" /\ Tag(items.album) # "")
             => ResolvedByName(before.releases, releases, tracks[f].release,
                               wasRelease, Tag(items.album))
        /\ (Tag(items.artistMBID) # ""
              /\ WithId(before.artists, Tag(items.artistMBID)) = {})
             => tracks[f].artist \notin IdLess(artists, Tag(items.artist))
        /\ (Tag(items.albumMBID) # ""
              /\ WithId(before.releases, Tag(items.albumMBID)) = {})
             => tracks[f].release \notin IdLess(releases, Tag(items.album))

\* the artist name of the file is the name of an artist with an id; the
\* file has no artist id, and its row gets another artist, one without id
C16_Witness ==
  /\ Written /\ Tag(lastFile.env.items.artistMBID) = ""
  /\ Tag(lastFile.env.items.artist) = "A"
  /\ \E i \in 1..Len(lastFile.before.artists) :
       /\ lastFile.before.artists[i].name = "A"
       /\ lastFile.before.artists[i].mbid = "i"
       /\ tracks[lastFile.file].artist # i
  /\ artists[tracks[lastFile.file].artist].mbid = ""
  /\ artists[tracks[lastFile.file].artist].name = "A"

Sentinels(table) == {i \in 1..Len(table) : table[i].none}

\* without an id and without a name: the sentinel of the table, which is
\* made by the first call that needs it and by no other
ResolvedToNone(before, after, ref) ==
  /\ IF Sentinels(before) # {}
     THEN after = before /\ ref \in Sentinels(before)
     ELSE /\ after = Append(before, [name |-> "", mbid |-> "", none |-> TRUE])
          /\ ref = Len(after)
  /\ Cardinality(Sentinels(after)) = 1

\* C17: an artist or a release resolved with no global id and no name is
\* the "unknown" sentinel of its kind, the same one on every call, and no
\* other entity is created by that resolution.
C17_ResolveToSentinel ==
  /\ Cardinality(Sentinels(artists)) <= 1
  /\ Cardinality(Sentinels(releases)) <= 1
  /\ Written =>
       LET f == lastFile.file
           items == lastFile.env.items
           before == lastFile.before
       IN  /\ (Tag(items.artistMBID) = "" /\ Tag(items.artist) = "")
                => ResolvedToNone(before.artists, artists, tracks[f].artist)
           /\ (Tag(items.albumMBID) = "" /\ Tag(items.album) = "")
                => ResolvedToNone(before.releases, releases,
                                  tracks[f].release)

\* the file has neither an artist name nor an artist id, the sentinel is
\* there already, and the row gets it while the table stays as it was
C17_Witness ==
  /\ Written
  /\ Tag(lastFile.env.items.artistMBID) = ""
  /\ Tag(lastFile.env.items.artist) = ""
  /\ Sentinels(lastFile.before.artists) # {}
  /\ Len(lastFile.before.artists) > 1
  /\ artists = lastFile.before.artists
  /\ tracks[lastFile.file].artist \in Sentinels(artists)

Unique(table) ==
  \A i, j \in 1..Len(table) :
    (i # j) =>
      /\ ~(table[i].mbid # "" /\ table[i].mbid = table[j].mbid)
      /\ ~(table[i].mbid = "" /\ table[j].mbid = ""
             /\ table[i].name = table[j].name)

\* C18: in every catalog the passes can produce from an empty one, files
\* that failed included, no two artists without global id have the same
\* name and no two artists have the same global id; the same for releases.
C18_Unique == Unique(artists) /\ Unique(releases)

\* a call has failed after artists of one name were made, one with an id
\* and one without
C18_Witness ==
  /\ lastFile.kind = "Audio" /\ lastFile.outcome = "error"
  /\ \E i, j \in 1..Len(artists) :
       /\ artists[i].name = "A" /\ artists[j].name = "A"
       /\ artists[i].mbid = "" /\ artists[j].mbid = "i"
  /\ Len(releases) >= 1

Named(table, name) ==
  {i \in 1..Len(table) : table[i].name = name /\ ~table[i].none}

\* C19: after a write of a Track row the genres of the row are exactly the
\* genres of the names extracted this time (a genre of an earlier write
\* that is not named now is gone), the sentinel alone when no name was
\* extracted, and never no genre at all; each name that had no Genre row
\* gets exactly one, of that name.
C19_GenresReplaced ==
  Written =>
    LET f == lastFile.file
        items == lastFile.env.items
        before == lastFile.before.genres
        names == IF Has(items.genres) THEN Range(Val(items.genres)) ELSE {}
        fresh == {n \in names : Named(before, n) = {}}
    IN  /\ tracks[f].genres # {}
        /\ \A n \in names : Cardinality(Named(genres, n)) = 1
        /\ names # {}
             => /\ tracks[f].genres = UNION {Named(genres, n) : n \in names}
                /\ Len(genres) = Len(before) + Cardinality(fresh)
        /\ names = {}
             => /\ tracks[f].genres = Sentinels(genres)
                /\ Cardinality(Sentinels(genres)) = 1
                /\ Len(genres) = Len(before)
                                   + (IF Sentinels(before) = {} THEN 1 ELSE 0)
        /\ \A i \in 1..Len(before) : genres[i] = before[i]

\* the row had two genres and is written again with one of them named
\* twice: the other one is gone from the row, and no Genre row was made
C19_Witness ==
  /\ Written /\ lastFile.file \in DOMAIN lastFile.before.tracks
  /\ Has(lastFile.env.items.genres)
  /\ Val(lastFile.env.items.genres) = <<"h", "h">>
  /\ Cardinality(lastFile.before.tracks[lastFile.file].genres) = 2
  /\ Cardinality(tracks[lastFile.file].genres) = 1
  /\ genres = lastFile.before.genres

\* the cover state the extraction and the directory of the file call for
CoverOf(env) ==
  IF Has(env.items.hasCover) /\ Val(env.items.hasCover) THEN "Embedded"
  ELSE IF env.externalCovers THEN "ExternalFile"
  ELSE "None"

\* C20: after a Track row is created or modified its cover state is
\* embedded if the extraction reports an embedded cover, else externalFile
\* if the directory of the file has an external cover, else none, for
\* every bag, one without the HasCover attribute included, and whatever
\* the cover state of the row was before.
C20_CoverState ==
  Written => tracks[lastFile.file].coverType = CoverOf(lastFile.env)

(***************************************************************************)
(* Properties of the pass as a whole.                                      *)
(***************************************************************************)
\* the rows of the other paths are what they were
OthersKept(table, after, f) ==
  /\ DOMAIN after = DOMAIN table \cup {f}
  /\ \A p \in DOMAIN table \ {f} : after[p] = table[p]

\* C21: a path has at most one Track row and at most one Video row.  A
\* qualifying file that is processed gets a row and counts as one added
\* exactly when its path had no row, and otherwise keeps its one row,
\* modified, and counts as one modified; never as both.
C21_OneRowPerPath ==
  [][\A f \in Files :
       /\ (AtAudioFile(f) /\ fs[f].fault = "none"
             /\ ~audioSkip(f, EnvOf(f)) /\ processDirectory_next)
            => /\ OthersKept(tracks, tracks', f)
               /\ videos' = videos
               /\ IF f \in DOMAIN tracks
                  THEN /\ stats' = [stats EXCEPT !.nbModified = @ + 1]
                       /\ lastFile'.outcome = "modified"
                  ELSE /\ stats' = [stats EXCEPT !.nbAdded = @ + 1]
                       /\ lastFile'.outcome = "added"
       /\ (AtVideoFile(f) /\ fs[f].fault = "none"
             /\ ~videoSkip(f, EnvOf(f)) /\ processDirectory_next)
            => /\ OthersKept(videos, videos', f)
               /\ tracks' = tracks
               /\ IF f \in DOMAIN videos
                  THEN /\ stats' = [stats EXCEPT !.nbModified = @ + 1]
                       /\ lastFile'.outcome = "modified"
                  ELSE /\ stats' = [stats EXCEPT !.nbAdded = @ + 1]
                       /\ lastFile'.outcome = "added"]_vars

\* a pass has created the row of the track and then modified the row of
\* the video, which an earlier pass had created
C21_Witness ==
  /\ lastFile.kind = "Video" /\ lastFile.outcome = "modified"
  /\ lastFile.file \in DOMAIN lastFile.before.videos
  /\ DOMAIN videos = DOMAIN lastFile.before.videos
  /\ stats.nbAdded = 1 /\ stats.nbModified = 1

\* C22: at the bookkeeping step of every pass, stopped or not,
\* lastUpdate becomes the time read there if the Stats of the pass, the
\* removals of the two sweeps included, count at least one change, and
\* stays as it is if they count none; nothing else writes lastUpdate, and
\* the Stats lose no change between the start of the pass and that step.
C22_LastModified ==
  [][/\ (pc = "saveScan" /\ pc' # pc)
          => settings'.lastUpdate = IF nbChanges(stats) > 0 THEN now
                                    ELSE settings.lastUpdate
     /\ (pc # "saveScan" \/ pc' = pc)
          => settings'.lastUpdate = settings.lastUpdate
     /\ (pc # "idle") => nbChanges(stats') >= nbChanges(stats)
     /\ (pc = "checkAudio" /\ pc' # pc)
          => nbChanges(stats')
               = nbChanges(stats) + Cardinality(DOMAIN tracks \ DOMAIN tracks')
     /\ (pc = "checkVideo" /\ pc' # pc)
          => nbChanges(stats')
               = nbChanges(stats) + Cardinality(DOMAIN videos \ DOMAIN videos')
    ]_vars

\* a pass whose only change is a removal by the sweep was stopped during
\* the walk: lastUpdate is set, lastScan is not
C22_Witness ==
  /\ pc = "clearManual" /\ pass.stoppedEarly /\ ~running
  /\ stats.nbRemoved = 1 /\ nbChanges(stats) = 1
  /\ settings.lastUpdate = now /\ settings.lastScan = NotATime

\* C28: of the settings the engine writes manualScanRequested, lastScan
\* and lastUpdate only: the update period, the update start time, the root
\* directories and the two extension lists are what they were after every
\* step of start(), stop(), the scheduling and the pass.
C28_SettingsFrame ==
  [][/\ settings'.updatePeriod = settings.updatePeriod
     /\ settings'.updateStartTime = settings.updateStartTime
     /\ configVars' = configVars
     /\ (settings' # settings) => pc \in {"saveScan", "clearManual"}
                                    \/ settings'.manualScanRequested]_vars

\* a pass has written the three fields, and the rest is as configured
C28_Witness ==
  /\ pc = "readRunning" /\ pass.scanSaved /\ pass.manualCleared
  /\ settings.lastScan # NotATime /\ settings.lastUpdate # NotATime
  /\ ~settings.manualScanRequested
  /\ settings.updatePeriod = "Weekly" /\ settings.updateStartTime = 1
  /\ Len(mediaDirectories) = 2

\* C29: once stop() has cleared _running during the walk, no file is
\* processed after the one being processed and no further root directory
\* is walked: the flag is read before every file and at the start of every
\* root directory.
C29_StopEndsWalk ==
  [][(~running /\ pc \in {"walk", "iterate"})
       => /\ lastFile' = lastFile
          /\ catalogVars' = catalogVars /\ stats' = stats
          /\ pc' # pc => pc' \in {"walk", "saveScan"}
          /\ itPath' = <<>> \/ itPath' = itPath]_vars

\* the pass was stopped after the track of the first root directory was
\* added; the second root directory was not walked and its video has no row
C29_Witness ==
  /\ pc = "saveScan" /\ pass.stoppedEarly /\ ~running
  /\ FileMA \in DOMAIN tracks /\ FileVC \notin DOMAIN videos
  /\ lastFile.kind = "Audio" /\ lastFile.outcome = "added"

\* C27: the lastWriteTime of a Track or Video row is the last write time
\* the file had when the call that last wrote the row read it: a call that
\* creates or modifies the row stores the time it read, and no other step
\* (a skip, an exception, a file that is not a track or a video, a sweep)
\* changes the time of a row that stays.
C27_LastWriteTime ==
  [][\A f \in Files :
       /\ (f \in DOMAIN tracks')
            => IF AtAudioFile(f) /\ processDirectory_next
                  /\ lastFile'.outcome \in {"added", "modified"}
               THEN tracks'[f].lastWriteTime = fs[f].mtime
               ELSE /\ f \in DOMAIN tracks
                    /\ tracks'[f].lastWriteTime = tracks[f].lastWriteTime
       /\ (f \in DOMAIN videos')
            => IF AtVideoFile(f) /\ processDirectory_next
                  /\ lastFile'.outcome \in {"added", "modified"}
               THEN videos'[f].lastWriteTime = fs[f].mtime
               ELSE /\ f \in DOMAIN videos
                    /\ videos'[f].lastWriteTime = videos[f].lastWriteTime]_vars

\* the track was written again after its row was made, and the call on it
\* has stored the new time in the row
C27_Witness ==
  /\ lastFile.kind = "Audio" /\ lastFile.outcome = "modified"
  /\ lastFile.before.tracks[lastFile.file].lastWriteTime = 0
  /\ lastFile.env.lwt = 1
  /\ lastFile.file \in DOMAIN tracks
  /\ tracks[lastFile.file].lastWriteTime = 1

IsPrefix(a, b) == Len(a) <= Len(b) /\ \A i \in 1..Len(a) : b[i] = a[i]

\* C26: no step of a pass deletes or changes a committed Artist, Release
\* or Genre row, whether the sweep removes tracks or a file that is no
\* longer a track loses its row: the three tables only grow.
C26_EntitiesOnlyGrow ==
  [][/\ IsPrefix(artists, artists')
     /\ IsPrefix(releases, releases')
     /\ IsPrefix(genres, genres')]_vars

\* the sweep has removed the only track, whose file was deleted; its
\* artist, release and genre are still there
C26_Witness ==
  /\ pc = "checkVideo" /\ lastSweep.kind = "Audio"
  /\ lastSweep.removed = {FileMA} /\ DOMAIN tracks = {}
  /\ Len(artists) = 1 /\ Len(releases) = 1 /\ Len(genres) = 1

\* C24: a root directory of the snapshot that does not exist, or is not a
\* directory, when its walk would start is passed over without an error:
\* nothing is processed for it, the loop goes on to the remaining root
\* directories, and the pass is completed (lastScan is set and the manual
\* scan is done).
C24_MissingRootSkipped ==
  [][/\ (pc = "walk" /\ rootDirectories # <<>> /\ running
           /\ ~(exists(Head(rootDirectories).path)
                  /\ is_directory(Head(rootDirectories).path))
           /\ processDirectory_enter)
          => /\ pc' = "walk" /\ rootDirectories' = Tail(rootDirectories)
             /\ itPath' = itPath /\ lastFile' = lastFile
             /\ catalogVars' = catalogVars /\ stats' = stats
     /\ (pc = "readRunning" /\ running)
          => /\ pass.scanSaved /\ settings.lastScan # NotATime
             /\ pass.manualPending => pass.manualCleared]_vars

\* the first root directory of the pass does not exist; the track of the
\* second one has its row and the pass is completed
C24_Witness ==
  /\ pc = "readRunning" /\ running
  /\ Head(mediaDirectories).path = DirB /\ ~exists(DirB)
  /\ stats.nbAdded = 1 /\ FileMA \in DOMAIN tracks
  /\ pass.scanSaved /\ pass.manualCleared
  /\ settings.lastScan = now /\ ~settings.manualScanRequested

PassEdges ==
  {<<"idle", "checkAudio">>, <<"checkAudio", "checkVideo">>,
   <<"checkVideo", "snapshot">>, <<"snapshot", "walk">>,
   <<"walk", "iterate">>, <<"iterate", "walk">>, <<"walk", "saveScan">>,
   <<"saveScan", "clearManual">>, <<"clearManual", "readRunning">>,
   <<"readRunning", "nextJob">>, <<"readRunning", "idle">>,
   <<"nextJob", "idle">>}

IsSuffix(a, b) ==
  Len(a) <= Len(b) /\ a = SubSeq(b, Len(b) - Len(a) + 1, Len(b))

\* C30: the steps of a pass come in this order: the sweep of the tracks,
\* the sweep of the videos, the snapshot of the root directories, the files
\* of the root directories of the snapshot, the bookkeeping (lastUpdate,
\* lastScan, the manual scan), and then the computation of the next scan.
\* No file is processed before the two sweeps are over, and a root
\* directory added to the configuration after the snapshot is not walked
\* in this pass.
C30_PassOrder ==
  [][/\ (pc' # pc) => <<pc, pc'>> \in PassEdges
     /\ (lastSweep' # lastSweep)
          => \/ pc = "checkAudio" /\ lastSweep'.kind = "Audio"
             \/ pc = "checkVideo" /\ lastSweep'.kind = "Video"
     /\ (lastFile' # lastFile) => pc = "iterate"
     /\ (catalogVars' # catalogVars)
          => pc \in {"checkAudio", "checkVideo", "iterate"}
     /\ (rootDirectories' # rootDirectories)
          => \/ pc = "snapshot" /\ rootDirectories' = mediaDirectories
             \/ /\ pc \in {"walk", "iterate"}
                /\ rootDirectories' = Tail(rootDirectories)
     /\ (pc' = "iterate" /\ pc = "walk")
          => /\ rootDirectories # <<>>
             /\ itPath'
                  = recursive_directory_iterator(Head(rootDirectories).path)
     /\ (settings'.lastScan # settings.lastScan
           \/ settings'.lastUpdate # settings.lastUpdate) => pc = "saveScan"
     /\ (settings.manualScanRequested /\ ~settings'.manualScanRequested)
          => pc = "clearManual"
     /\ (lastJob' # lastJob \/ (timer'.armed /\ ~timer.armed))
          => pc = "nextJob" \/ ctl = "idle"]_vars

\* the video root directory was added to the configuration after the
\* snapshot: the pass is at its bookkeeping with the track processed and the
\* video not
C30_Witness ==
  /\ pc = "saveScan" /\ running
  /\ VideoRoot(DirV) \in Range(mediaDirectories)
  /\ FileMA \in DOMAIN tracks /\ FileVC \notin DOMAIN videos
  /\ lastFile.kind = "Audio" /\ lastFile.outcome = "added"
  /\ lastSweep.kind = "Video"

\* C23: when an access to the settings or to the catalog fails during a
\* pass (in a sweep, at the snapshot of the root directories or at the
\* bookkeeping), the pass is over and the next scan is nonetheless
\* scheduled: with a manual scan still requested, the timer is armed or its
\* handler is queued.
C23_RearmAfterFailure ==
  (pc = "dbException" /\ settings.manualScanRequested)
    => (timer.armed \/ queue # <<>>)

\* C25: when the root directory being walked is removed, the walk of that
\* root directory alone is over: the loop over the root directories goes
\* on with the next one, the pass does not fail, and the bookkeeping and
\* the scheduling of the next scan follow.
C25_VanishedRootTolerated ==
  [][(pc = "iterate" /\ ~is_directory(Head(rootDirectories).path)
        /\ pc' # pc)
       => (pc' = "walk" /\ rootDirectories' = Tail(rootDirectories))]_vars

\* C31: the test of the sweep that a row belongs to a root directory is a
\* test of the prefix of its path: a row whose path holds the path of a
\* configured root directory of its kind somewhere inside, and starts with
\* the path of none, is out of root and is removed.
C31_PrefixTest ==
  lastSweep.kind # "none" =>
    \A p \in lastSweep.rows :
      (/\ \E rootDir \in lastSweep.rootDirs : find(p, rootDir)
       /\ ~\E rootDir \in lastSweep.rootDirs : startsWith(p, rootDir))
        => p \in lastSweep.removed

(***************************************************************************)
(* Properties of the transaction checker, the migration and the cacher.    *)
(***************************************************************************)
\* the stack holds a transaction of one of `types` on `session`
Inside(stack, session, types) ==
  \E i \in 1..Len(stack) :
    stack[i].session = session /\ stack[i].type \in types

\* C32: a call that requires a write transaction is accepted if and only if
\* the stack of the calling thread holds a write transaction on the session
\* of the call, whatever was opened inside it; a call that requires a read
\* transaction is accepted if and only if the stack holds any transaction on
\* that session.
C32_ChecksAccept ==
  /\ lastCheck.kind = "write" =>
       (lastCheck.accepted <=>
          Inside(lastCheck.stack, lastCheck.session, {"Write"}))
  /\ lastCheck.kind = "read" =>
       (lastCheck.accepted <=>
          Inside(lastCheck.stack, lastCheck.session, TransactionTypes))

\* the versions from `from` up to, and without, `to`, in ascending order
Ascending(from, to) == [i \in 1..(to - from) |-> from + i - 1]

MigrationShape ==
  migration.pc # "idle" =>
    IF migration.from > LMS_DATABASE_VERSION \/ migration.from < 32
    THEN /\ migration.pc = "error"
         /\ migration.steps = <<>>
         /\ versionInfo = migration.from
    ELSE /\ migration.pc \in {"loop", "done"}
         /\ migration.steps = Ascending(migration.from, versionInfo)
         /\ versionInfo <= LMS_DATABASE_VERSION
         /\ migration.pc = "done" => versionInfo = LMS_DATABASE_VERSION

\* C33: doDbMigration over a stored version above the version of the binary
\* or below 32 ends with an error, having run no step and stored nothing;
\* over any other stored version the steps run so far are the versions from
\* the one found up to the one now stored, each once and in ascending order,
\* and the function ends with the version of the binary stored.
C33_Migration ==
  [](MigrationShape) /\ <>(migration.pc \in {"error", "done"})

\* a migration over several versions has ended
C33_Witness ==
  /\ migration.pc = "done"
  /\ migration.from < LMS_DATABASE_VERSION - 1
  /\ Len(migration.steps) = LMS_DATABASE_VERSION - migration.from

\* C40: hasCache returns true for a key if and only if addToCache has been
\* called for that key with values that are not empty since the last
\* invalidateCache (or since the construction), whichever calls came before.
C40_HasAfterAdd ==
  lastHas.kind = "has" => (lastHas.result <=> lastHas.key \in lastHas.added)

(***************************************************************************)
(* Further properties of the scheduler.                                    *)
(***************************************************************************)
\* the longest wait of a period, in days
Window(period) ==
  CASE period = "Daily" -> 1
    [] period = "Weekly" -> 7
    [] period = "Monthly" -> 31

\* C38: under Daily, Weekly and Monthly with no manual scan requested, the
\* time processNextJob() schedules the scan at is strictly later than the
\* time of the call, and at most 1 day, 7 days and 31 days later.
C38_FireWindow ==
  (Computed /\ ~lastJob.manual
     /\ lastJob.period \in {"Daily", "Weekly", "Monthly"})
    => /\ lastJob.kind = "ptime"
       /\ ~TimeLE(lastJob.at, lastJob.now)
       /\ TimeLE(lastJob.at, Time(Today + Window(lastJob.period),
                                  lastJob.now.tod))

\* start() exactly at the start time on the 1st of a month of 31 days: the
\* scan is scheduled 31 days later to the second
C38_Witness ==
  /\ Computed /\ lastJob.period = "Monthly" /\ ~lastJob.manual
  /\ lastJob.now.tod = lastJob.startTime
  /\ lastJob.at = Time(Today + 31, lastJob.now.tod)
  /\ timer.armed /\ timer.at = lastJob.at

(***************************************************************************)
(* Further properties of the passes.                                       *)
(***************************************************************************)
\* C35: the Stats count committed changes only: a call on a file that ends
\* with an error, its transaction discarded, leaves the Stats of the pass
\* as it found them.
C35_ErrorsNotCounted ==
  lastFile.outcome = "error" => lastFile.statsAfter = lastFile.statsBefore

\* C36: a call on a file that the call before it has processed without
\* error, with the same last write time, the same external covers and the
\* same extraction, writes nothing and counts nothing, whether the
\* extraction has the HasCover attribute or not.
C36_SecondCallIdle ==
  [][(AudioFile /\ lastFile.kind = "Audio" /\ lastFile.env.fault = "none"
        /\ lastFile'.env = lastFile.env)
       => (UNCHANGED catalogVars /\ stats' = stats)]_vars

\* C39: an audio file that is parsed without error, with at least one audio
\* stream and a duration above zero, half a second included, is not
\* disqualified: its Track row is created or modified, and not deleted.
C39_ShortTrackKept ==
  LET items == lastFile.env.items
  IN  (/\ lastFile.kind = "Audio" /\ lastFile.extracted
       /\ lastFile.env.fault = "none"
       /\ Has(items.audioStreams) /\ Val(items.audioStreams) > 0
       /\ Has(items.duration) /\ Val(items.duration) > 0)
        => /\ lastFile.outcome \in {"added", "modified"}
           /\ lastFile.file \in DOMAIN tracks

\* C37: while the engine is started, a manual scan that is requested under
\* the period Never is served in the end: the request is cleared by a pass,
\* unless the engine is stopped first.
C37_ManualServed ==
  (ctl = "started" /\ settings.updatePeriod = "Never"
     /\ settings.manualScanRequested)
    ~> (~settings.manualScanRequested \/ ctl # "started")

\* C34: a pass that sets lastScan or clears the request of a manual scan
\* has walked every root directory to its end, however stop() and start()
\* were called while it ran: over a library whose two files are both fit
\* for a row, each of them has its row by then.
C34_SavedMeansWalked ==
  (pc = "readRunning" /\ (pass.scanSaved \/ pass.manualCleared))
    => (FileMA \in DOMAIN tracks /\ FileVC \in DOMAIN videos)
====
